---- MODULE Spec2Model ----
(***************************************************************************)
(* Raid correlation engine of cox-raid-tracker (services/googleSheets.js). *)
(* Three event streams (points, duration, loot) are correlated into raid   *)
(* records kept in the in-memory buffer recentRaids, with orphaned         *)
(* duration/loot messages buffered in orphanedMessages, and written        *)
(* through to a spreadsheet.  Times are milliseconds, as in the source.    *)
(***************************************************************************)
EXTENDS Integers, Sequences, FiniteSets, TLC

VARIABLES
    now,            \* Date.now()
    recentRaids,    \* const recentRaids = []
    durations,      \* orphanedMessages.durations
    loots,          \* orphanedMessages.loots
    sheet,          \* rows of the 'Raids' sheet, row 1 is the header row
    timers,         \* pending setTimeout callbacks of handleRaidCompletion
    detached,       \* raids shifted out of recentRaids that a pending callback still holds
    nextId,         \* identity of the next raid object created
    calls,          \* history: store requests issued so far
    last,           \* history: what the last step did
    seen,           \* history: qualifying participants of the tracked occurrence
    first,          \* history: first accepted points event of the tracked occurrence
    script,         \* scenario of a scripted specification: event order, row input, bootstrap runs
    messageQueue,       \* index.js: const messageQueue = []
    isProcessingQueue,  \* index.js: let isProcessingQueue = false
    processing,         \* messages whose processMessage is suspended in a store call
    arrived,            \* history: number of messages queued so far
    begun,              \* history: messages in the order in which their processing began
    settled,            \* history: messages in the order in which their promise settled
    answers,            \* history: the number of store calls of the queue that were answered
    lastRateLimitError, \* let lastRateLimitError = 0
    sheetsClient,       \* let sheetsClient = null; TRUE for a client handle
    gateway,            \* the appendRow / updateRow call in progress, or the last one made
    requests            \* history: the latest request that reached the store

queueVars == <<messageQueue, isProcessingQueue, processing, arrived, begun, settled,
               answers>>

gatewayVars == <<lastRateLimitError, sheetsClient, gateway, requests>>

vars == <<now, recentRaids, durations, loots, sheet, timers, detached, nextId,
          calls, last, seen, first, script, queueVars, gatewayVars>>

-----------------------------------------------------------------------------
(* Program constants *)

RATE_LIMIT_COOLDOWN == 60000
MAX_RAID_HISTORY == 10
RAID_TIMEOUT == 300000
ORPHAN_TIMEOUT == 10000
MAX_PLAYERS == 5
MIN_TEAM_SIZE == 10
MERGE_WINDOW == 3000
MIN_POINTS_THRESHOLD == 2000
LOOT_TIME_WINDOW == 60000
POINTS_TIME_WINDOW == 120000
POINTS_TOLERANCE == 500
MAX_DATA_AGE == 300000
DELAYED_UPDATE_DELAY == 2000
TIME_THRESHOLD == 60000

(* JavaScript null for string-valued fields, for totalPoints and for sheetRow *)
Null == "<null>"
NullPoints == 0 - 1
NoRow == 0

Truthy(str) == str # Null /\ str # ""

Abs(n) == IF n < 0 THEN 0 - n ELSE n

-----------------------------------------------------------------------------
(* Strings *)

Digits == [c \in {"0", "1", "2", "3", "4", "5", "6", "7", "8", "9"} |->
             CASE c = "0" -> 0 [] c = "1" -> 1 [] c = "2" -> 2 [] c = "3" -> 3
               [] c = "4" -> 4 [] c = "5" -> 5 [] c = "6" -> 6 [] c = "7" -> 7
               [] c = "8" -> 8 [] c = "9" -> 9]

CharAt(str, i) == SubSeq(str, i, i)

IsDigit(c) == c \in DOMAIN Digits

(* String.prototype.includes *)
Includes(str, pat) ==
    \E i \in 1..(Len(str) - Len(pat) + 1) : SubSeq(str, i, i + Len(pat) - 1) = pat

(* number of leading decimal digits of str: the match of /^(\d+)/ *)
RECURSIVE DigitPrefixLen(_, _)
DigitPrefixLen(str, i) ==
    IF i <= Len(str) /\ IsDigit(CharAt(str, i)) THEN DigitPrefixLen(str, i + 1) ELSE i - 1

(* parseInt(digits, 10) of the first n characters *)
RECURSIVE ParseInt(_, _)
ParseInt(str, n) ==
    IF n = 0 THEN 0 ELSE 10 * ParseInt(str, n - 1) + Digits[CharAt(str, n)]

-----------------------------------------------------------------------------
(* isScaleLargeEnough *)

(* variant: a team of exactly MIN_TEAM_SIZE taken for too small *)
isScaleLargeEnough_above(scale) ==
    IF ~Truthy(scale) THEN TRUE
    ELSE LET n == DigitPrefixLen(scale, 1)
         IN  IF n = 0 THEN TRUE ELSE ParseInt(scale, n) > MIN_TEAM_SIZE

isScaleLargeEnough(scale) ==
    IF ~Truthy(scale) THEN TRUE
    ELSE LET n == DigitPrefixLen(scale, 1)
         IN  IF n = 0 THEN TRUE ELSE ParseInt(scale, n) >= MIN_TEAM_SIZE

-----------------------------------------------------------------------------
(* Sequences *)

RemoveAt(seq, i) == SubSeq(seq, 1, i - 1) \o SubSeq(seq, i + 1, Len(seq))

Take(seq, n) == SubSeq(seq, 1, IF n < Len(seq) THEN n ELSE Len(seq))

(* Array.prototype.some(p => p.name === name) *)
HasPlayer(players, name) == \E i \in 1..Len(players) : players[i].name = name

(* index in raids of the raid object with identity id, 0 if it is not in the buffer *)
IndexOfId(raids, id) ==
    IF \E i \in 1..Len(raids) : raids[i].id = id
    THEN CHOOSE i \in 1..Len(raids) : raids[i].id = id
    ELSE 0

(* the raid object is shared by reference: a change to it shows in the buffer *)
Put(raids, raid) ==
    LET i == IndexOfId(raids, raid.id)
    IN  IF i = 0 THEN raids ELSE [raids EXCEPT ![i] = raid]

-----------------------------------------------------------------------------
(* cleanOrphans *)

(* variant: no orphan ever times out *)
cleanOrphans_keep(orphans, t) == orphans

cleanOrphans(orphans, t) ==
    SelectSeq(orphans, LAMBDA orphan : orphan.timestamp >= t - ORPHAN_TIMEOUT)

-----------------------------------------------------------------------------
(* mergeOrphansWithRaid *)

lootMessageOf(playerName, itemName) ==
    IF Truthy(playerName) THEN "(" \o playerName \o ") - " \o itemName ELSE itemName

appendLoot(uniqueDrop, lootMessage) ==
    IF Truthy(uniqueDrop) THEN uniqueDrop \o ", " \o lootMessage ELSE lootMessage

(* variant: the merge window taken as a strict bound *)
inMergeWindow_strict(orphans, raidTime) ==
    {i \in 1..Len(orphans) :
        /\ raidTime - orphans[i].timestamp >= 0
        /\ raidTime - orphans[i].timestamp < MERGE_WINDOW}

(* indices of the orphans that came before the raid, within the merge window *)
inMergeWindow(orphans, raidTime) ==
    {i \in 1..Len(orphans) :
        /\ raidTime - orphans[i].timestamp >= 0
        /\ raidTime - orphans[i].timestamp <= MERGE_WINDOW}

(* variant: the first orphan of the buffer that is within the window *)
closestDuration_first(orphans, raidTime) ==
    LET cand == inMergeWindow(orphans, raidTime)
    IN  IF cand = {} THEN 0 ELSE CHOOSE i \in cand : \A j \in cand : i <= j

(* the first orphan with the smallest time difference, 0 if none qualifies *)
closestDuration(orphans, raidTime) ==
    LET cand == inMergeWindow(orphans, raidTime)
    IN  IF cand = {} THEN 0
        ELSE CHOOSE i \in cand : \A j \in cand :
                \/ orphans[j].timestamp < orphans[i].timestamp
                \/ (orphans[j].timestamp = orphans[i].timestamp /\ i <= j)

(* matchingOrphans is collected from the last index down and then sorted by  *)
(* timeDiff with a stable sort: closest first, the higher index first on a tie *)
(* variant: the orphans taken in the order of the buffer, not sorted *)
RECURSIVE sortMatching_unsorted(_, _, _)
sortMatching_unsorted(orphans, raidTime, idx) ==
    IF idx = {} THEN <<>>
    ELSE LET m == CHOOSE i \in idx : \A j \in idx : i <= j
         IN  <<m>> \o sortMatching_unsorted(orphans, raidTime, idx \ {m})

RECURSIVE sortMatching(_, _, _)
sortMatching(orphans, raidTime, idx) ==
    IF idx = {} THEN <<>>
    ELSE LET m == CHOOSE i \in idx : \A j \in idx :
                     \/ orphans[j].timestamp < orphans[i].timestamp
                     \/ (orphans[j].timestamp = orphans[i].timestamp /\ j <= i)
         IN  <<m>> \o sortMatching(orphans, raidTime, idx \ {m})

RECURSIVE mergeLoots(_, _, _)
mergeLoots(uniqueDrop, orphans, order) ==
    IF order = <<>> THEN uniqueDrop
    ELSE mergeLoots(
            appendLoot(uniqueDrop,
                       lootMessageOf(orphans[Head(order)].playerName,
                                     orphans[Head(order)].itemName)),
            orphans, Tail(order))

(* lines 328-331: the indices are spliced out from the highest down *)
(* variant: spliced out from the lowest up, so that later indices shift *)
RECURSIVE removeIndices_ascending(_, _)
removeIndices_ascending(orphans, idx) ==
    IF idx = {} THEN orphans
    ELSE LET m == CHOOSE i \in idx : \A j \in idx : i <= j
         IN  removeIndices_ascending(IF m <= Len(orphans) THEN RemoveAt(orphans, m)
                                     ELSE orphans,
                                     idx \ {m})

removeIndices(orphans, idx) ==
    LET keep == {i \in 1..Len(orphans) : i \notin idx}
        F[n \in 0..Len(orphans)] ==
            IF n = 0 THEN <<>>
            ELSE IF n \in keep THEN Append(F[n - 1], orphans[n]) ELSE F[n - 1]
    IN  F[Len(orphans)]

(* result: the raid, the two orphan buffers, and the orphans consumed *)
mergeOrphansWithRaid(raid, durs, lts) ==
    LET raidTime == raid.timestamp
        ci == IF ~Truthy(raid.completionTime) /\ Len(durs) > 0
              THEN closestDuration(durs, raidTime) ELSE 0
        raid1 == IF ci = 0 THEN raid
                 ELSE [raid EXCEPT
                         !.completionTime = durs[ci].raidTime,
                         !.scale = IF Truthy(durs[ci].scale) THEN durs[ci].scale ELSE @]
        idx == inMergeWindow(lts, raidTime)
        order == sortMatching(lts, raidTime, idx)
        raid2 == [raid1 EXCEPT !.uniqueDrop = mergeLoots(@, lts, order)]
    IN  [raid |-> raid2,
         durations |-> IF ci = 0 THEN durs ELSE RemoveAt(durs, ci),
         loots |-> removeIndices(lts, idx),
         usedDurations |-> IF ci = 0 THEN <<>> ELSE <<durs[ci]>>,
         usedLoots |-> [k \in 1..Len(order) |-> lts[order[k]]],
         merged |-> ci # 0 \/ idx # {}]

-----------------------------------------------------------------------------
(* createRaidEntry *)

RECURSIVE dropOld(_, _)
dropOld(raids, cutoff) ==
    IF Len(raids) > 0 /\ raids[1].timestamp < cutoff
    THEN dropOld(Tail(raids), cutoff)
    ELSE raids

(* lines 363-365: keep only recent raids *)
(* variant: the newest raid dropped instead of the oldest *)
capHistory_newest(pushed) ==
    IF Len(pushed) > MAX_RAID_HISTORY THEN Take(pushed, MAX_RAID_HISTORY) ELSE pushed

capHistory(pushed) ==
    IF Len(pushed) > MAX_RAID_HISTORY THEN Tail(pushed) ELSE pushed

(* result: the new raid object and the buffer after the push and the clean-up *)
createRaidEntry(raids, data, id, t) ==
    LET filteredPlayers ==
            Take(SelectSeq(data.players, LAMBDA p : p.points >= MIN_POINTS_THRESHOLD),
                 MAX_PLAYERS)
        raid == [id |-> id,
                 timestamp |-> data.timestamp,
                 totalPoints |-> data.totalPoints,
                 completionTime |-> IF Truthy(data.raidTime) THEN data.raidTime ELSE "",
                 scale |-> "",
                 uniqueDrop |-> "",
                 players |-> filteredPlayers,
                 sheetRow |-> NoRow,
                 addedToSheet |-> FALSE]
    IN  [raid |-> raid,
         recentRaids |-> dropOld(capHistory(Append(raids, raid)), t - RAID_TIMEOUT)]

-----------------------------------------------------------------------------
(* findRaidForLoot: index of the raid found, 0 for null *)

lastIndex(S) == IF S = {} THEN 0 ELSE CHOOSE i \in S : \A j \in S : j <= i

(* variant: the most recent raid taken, whoever took part in it *)
findRaidForLoot_recent(raids, lootData, t) ==
    lastIndex({i \in 1..Len(raids) : t - raids[i].timestamp <= LOOT_TIME_WINDOW})

findRaidForLoot(raids, lootData, t) ==
    LET recent == {i \in 1..Len(raids) : t - raids[i].timestamp <= LOOT_TIME_WINDOW}
        withPlayer == {i \in recent : HasPlayer(raids[i].players, lootData.playerName)}
    IN  IF withPlayer # {} THEN lastIndex(withPlayer) ELSE lastIndex(recent)

-----------------------------------------------------------------------------
(* findRaidByTotalPoints: index of the raid found, 0 for null.  In            *)
(* raid.totalPoints - totalPoints a null totalPoints of the raid counts as 0. *)

(* variant: the tolerance taken as a strict bound *)
findRaidByTotalPoints_strict(raids, totalPoints, t) ==
    lastIndex({i \in 1..Len(raids) :
        /\ t - raids[i].timestamp <= POINTS_TIME_WINDOW
        /\ IF totalPoints # NullPoints
           THEN Abs((IF raids[i].totalPoints = NullPoints THEN 0 ELSE raids[i].totalPoints)
                    - totalPoints) < POINTS_TOLERANCE
           ELSE raids[i].totalPoints = NullPoints})

(* variant: the raid closest in points taken, the newest of them on a tie *)
findRaidByTotalPoints_closest(raids, totalPoints, t) ==
    LET match == {i \in 1..Len(raids) :
                    /\ t - raids[i].timestamp <= POINTS_TIME_WINDOW
                    /\ Abs(raids[i].totalPoints - totalPoints) <= POINTS_TOLERANCE}
    IN  lastIndex({i \in match : \A j \in match :
                    Abs(raids[i].totalPoints - totalPoints)
                       <= Abs(raids[j].totalPoints - totalPoints)})

findRaidByTotalPoints(raids, totalPoints, t) ==
    lastIndex({i \in 1..Len(raids) :
        /\ t - raids[i].timestamp <= POINTS_TIME_WINDOW
        /\ IF totalPoints # NullPoints
           THEN Abs((IF raids[i].totalPoints = NullPoints THEN 0 ELSE raids[i].totalPoints)
                    - totalPoints) <= POINTS_TOLERANCE
           ELSE raids[i].totalPoints = NullPoints})

-----------------------------------------------------------------------------
(* formatTimestamp and raidToRow *)

(* toLocaleString with month, day, hour and minute only: the seconds are lost *)
formatTimestamp(timestamp) == [minute |-> timestamp \div 60000]

Str(s) == [str |-> IF Truthy(s) THEN s ELSE ""]
Num(n) == IF n = NullPoints \/ n = 0 THEN [str |-> ""] ELSE [num |-> n]

raidToRow(raid) ==
    <<formatTimestamp(raid.timestamp), Num(raid.totalPoints),
      Str(raid.completionTime), Str(raid.uniqueDrop)>>
    \o [k \in 1..(2 * MAX_PLAYERS) |->
          LET i == (k + 1) \div 2
          IN  IF i <= Len(raid.players)
              THEN IF k % 2 = 1 THEN Str(raid.players[i].name)
                                ELSE Num(raid.players[i].points)
              ELSE [str |-> ""]]
    \o <<Str(raid.scale)>>

-----------------------------------------------------------------------------
(* The spreadsheet, as the Persistence Gateway sees it.  A request either    *)
(* succeeds ("ok") or appendRow / updateRow end by throwing ("fail").        *)

HeaderRow == [rid |-> 0, cells |-> <<>>]

(* values.append: the row lands below the last one; updatedRange names it *)
sheetAppend(sh, rid, row) == Append(sh, [rid |-> rid, cells |-> row])

(* values.update of row rowNumber *)
(* variant: the values are appended below the last row instead *)
sheetUpdate_append(sh, rowNumber, rid, row) == Append(sh, [rid |-> rid, cells |-> row])

sheetUpdate(sh, rowNumber, rid, row) ==
    IF rowNumber \in 1..Len(sh) THEN [sh EXCEPT ![rowNumber] = [rid |-> rid, cells |-> row]]
    ELSE sh

Call(op, raid) == [op |-> op, rid |-> raid.id, scale |-> raid.scale]

-----------------------------------------------------------------------------
(* The state of the module as one record, so that handlers compose *)

Cur == [now |-> now, recentRaids |-> recentRaids, durations |-> durations,
        loots |-> loots, sheet |-> sheet, timers |-> timers, detached |-> detached,
        nextId |-> nextId, calls |-> calls, last |-> last]

Did(type, path, rid, threw, data) ==
    [type |-> type, path |-> path, rid |-> rid, threw |-> threw, data |-> data,
     usedDurations |-> <<>>, usedLoots |-> <<>>]

(* "if (raid.addedToSheet && raid.sheetRow) updateRow(...)" on state s *)
(* variant: updateRow is called without looking at the flag and the row *)
updateIfAdded_unchecked(s, raid, res) ==
    [s EXCEPT !.calls = @ \cup {Call("update", raid)},
              !.sheet = IF res = "ok"
                        THEN sheetUpdate(@, raid.sheetRow, raid.id, raidToRow(raid))
                        ELSE @]

(* variant: a refused updateRow takes the mark off the raid *)
updateIfAdded_forget(s, raid, res) ==
    IF raid.addedToSheet /\ raid.sheetRow # NoRow
    THEN IF res = "ok"
         THEN [s EXCEPT !.calls = @ \cup {Call("update", raid)},
                        !.sheet = sheetUpdate(@, raid.sheetRow, raid.id, raidToRow(raid))]
         ELSE [s EXCEPT !.calls = @ \cup {Call("update", raid)},
                        !.recentRaids = Put(@, [raid EXCEPT !.addedToSheet = FALSE])]
    ELSE s

(* variant: the change stays in memory, no updateRow *)
updateIfAdded_skip(s, raid, res) == s

updateIfAdded(s, raid, res) ==
    IF raid.addedToSheet /\ raid.sheetRow # NoRow
    THEN [s EXCEPT !.calls = @ \cup {Call("update", raid)},
                   !.sheet = IF res = "ok"
                             THEN sheetUpdate(@, raid.sheetRow, raid.id, raidToRow(raid))
                             ELSE @]
    ELSE s

Updates(raid) == raid.addedToSheet /\ raid.sheetRow # NoRow

-----------------------------------------------------------------------------
(* handleRaidCompletion *)

(* lines 644-647: a placeholder found by total points takes the points *)
(* variant: the total of the latest event always taken *)
promote_always(raid, data) == [raid EXCEPT !.totalPoints = data.totalPoints]

promote(raid, data) ==
    IF raid.totalPoints = NullPoints
    THEN [raid EXCEPT !.totalPoints = data.totalPoints] ELSE raid

(* lines 653 and 698: players below the threshold are likely alts *)
belowThreshold(newPlayer) == newPlayer.points < MIN_POINTS_THRESHOLD

(* lines 658 and 698: raid.players.length < MAX_PLAYERS *)
(* variant: the limit checked one too late *)
underLimit_late(players) == Len(players) <= MAX_PLAYERS

underLimit(players) == Len(players) < MAX_PLAYERS

(* lines 659 and 699: raid.players.some(p => p.name === newPlayer.name) *)
playerExists(players, newPlayer) == HasPlayer(players, newPlayer.name)

(* lines 641-685: a raid with matching total points exists at index i *)
existingRaid(s, i, data, res) ==
    LET raid0 == s.recentRaids[i]
        raid1 == promote(raid0, data)
        hasNew == Len(data.players) > 0
        newPlayer == data.players[1]
        s1 == [s EXCEPT !.recentRaids = Put(@, raid1)]
    IN  IF hasNew /\ belowThreshold(newPlayer)
        THEN [s1 EXCEPT !.last = Did("points", "skipped", raid1.id, FALSE, data)]
        ELSE IF hasNew /\ underLimit(raid1.players)
        THEN IF ~playerExists(raid1.players, newPlayer)
             THEN LET raid2 == [raid1 EXCEPT !.players = Append(@, newPlayer)]
                      s2 == [s1 EXCEPT !.recentRaids = Put(@, raid2)]
                  IN  IF Updates(raid2)
                      THEN [updateIfAdded(s2, raid2, res) EXCEPT
                              !.last = Did("points", "added", raid2.id, res # "ok", data)]
                      ELSE [s2 EXCEPT
                              !.timers = @ \cup {[rid |-> raid2.id,
                                                  due |-> s.now + DELAYED_UPDATE_DELAY,
                                                  player |-> newPlayer.name]},
                              !.last = Did("points", "added", raid2.id, FALSE, data)]
             ELSE [s1 EXCEPT !.last = Did("points", "present", raid1.id, FALSE, data)]
        ELSE [s1 EXCEPT !.last = Did("points",
                                     IF ~underLimit(raid1.players) THEN "full"
                                     ELSE "noplayer",
                                     raid1.id, FALSE, data)]

(* lines 718-745: the team-size gate, then append or update *)
(* lines 731-737: the row number of the response and the flag, set together *)
(* variant: the flag is set although no row number was read *)
appended_unread(raid, rowNumber) == [raid EXCEPT !.addedToSheet = TRUE]

appended(raid, rowNumber) ==
    [raid EXCEPT !.sheetRow = rowNumber, !.addedToSheet = TRUE]

persistRaid(s, raid, res, path, data, used) ==
    LET did == [Did("points", path, raid.id, FALSE, data) EXCEPT
                    !.usedDurations = used.usedDurations, !.usedLoots = used.usedLoots]
    IN  IF ~isScaleLargeEnough(raid.scale)
        THEN [s EXCEPT !.last = did]
        ELSE IF raid.totalPoints # NullPoints /\ ~raid.addedToSheet
        THEN IF res = "ok"
             THEN LET sh == sheetAppend(s.sheet, raid.id, raidToRow(raid))
                      raid1 == appended(raid, Len(sh))
                  IN  [s EXCEPT !.calls = @ \cup {Call("append", raid)},
                                !.sheet = sh,
                                !.recentRaids = Put(@, raid1),
                                !.last = did]
             ELSE [s EXCEPT !.calls = @ \cup {Call("append", raid)},
                            !.last = [did EXCEPT !.threw = TRUE]]
        ELSE IF Updates(raid)
        THEN [updateIfAdded(s, raid, res) EXCEPT
                !.last = [did EXCEPT !.threw = res # "ok"]]
        ELSE [s EXCEPT !.last = did]

NoneUsed == [usedDurations |-> <<>>, usedLoots |-> <<>>]

(* lines 686-705: no raid matches; a placeholder raid at index i takes the points *)
placeholderRaid(s, i, data, res) ==
    LET raid0 == [s.recentRaids[i] EXCEPT !.totalPoints = data.totalPoints]
        raid1 == IF /\ Len(data.players) > 0
                    /\ ~belowThreshold(data.players[1])
                    /\ underLimit(raid0.players)
                    /\ ~playerExists(raid0.players, data.players[1])
                 THEN [raid0 EXCEPT !.players = Append(@, data.players[1])]
                 ELSE raid0
    IN  persistRaid([s EXCEPT !.recentRaids = Put(@, raid1)], raid1, res,
                    "placeholder", data, NoneUsed)

(* raids shifted out of the buffer stay alive while a pending callback holds them *)
stillHeld(before, after, tms) ==
    {before[i] : i \in {j \in 1..Len(before) :
        /\ IndexOfId(after, before[j].id) = 0
        /\ \E tm \in tms : tm.rid = before[j].id}}

(* lines 706-716: a new raid entry, merged with the orphans *)
newRaid(s, data, res) ==
    LET c == createRaidEntry(s.recentRaids, data, s.nextId, s.now)
        m == mergeOrphansWithRaid(c.raid, s.durations, s.loots)
        s1 == [s EXCEPT !.recentRaids = Put(c.recentRaids, m.raid),
                        !.detached = @ \cup stillHeld(s.recentRaids, c.recentRaids, s.timers),
                        !.nextId = @ + 1,
                        !.durations = m.durations,
                        !.loots = m.loots]
    IN  persistRaid(s1, m.raid, res, "created", data, m)

(* lines 625-630: the stale-data guard *)
(* variant: no event is taken for stale *)
isStale_never(dataAge) == FALSE

isStale(dataAge) == dataAge > MAX_DATA_AGE

handleRaidCompletion(s, data, res) ==
    IF isStale(s.now - data.timestamp)
    THEN [s EXCEPT !.last = Did("points", "stale", 0, FALSE, data)]
    ELSE LET s1 == [s EXCEPT !.durations = cleanOrphans(@, s.now),
                             !.loots = cleanOrphans(@, s.now)]
             i == findRaidByTotalPoints(s1.recentRaids, data.totalPoints, s1.now)
             ph == findRaidByTotalPoints(s1.recentRaids, NullPoints, s1.now)
         IN  IF i # 0 THEN existingRaid(s1, i, data, res)
             ELSE IF ph # 0 THEN placeholderRaid(s1, ph, data, res)
             ELSE newRaid(s1, data, res)

(* the callback of setTimeout(..., 2000): it holds the raid object itself *)
heldRaid(s, rid) ==
    IF IndexOfId(s.recentRaids, rid) # 0 THEN s.recentRaids[IndexOfId(s.recentRaids, rid)]
    ELSE CHOOSE r \in s.detached : r.id = rid

delayedUpdate(s, tm, res) ==
    LET raid == heldRaid(s, tm.rid)
        rest == s.timers \ {tm}
        s1 == [s EXCEPT !.timers = rest,
                        !.detached = {r \in @ : \E o \in rest : o.rid = r.id}]
    IN  [updateIfAdded(s1, raid, res) EXCEPT
            !.last = Did("timer", IF Updates(raid) THEN "updated" ELSE "nothing",
                         raid.id, Updates(raid) /\ res # "ok", tm)]

-----------------------------------------------------------------------------
(* handleDurationUpdate *)

(* variant: the threshold taken as a strict bound *)
durationTarget_strict(raids, t) ==
    lastIndex({i \in 1..Len(raids) :
        t - raids[i].timestamp < TIME_THRESHOLD /\ ~Truthy(raids[i].completionTime)})

(* variant: only a raid that is in the sheet is a target *)
durationTarget_persisted(raids, t) ==
    lastIndex({i \in 1..Len(raids) :
        /\ t - raids[i].timestamp <= TIME_THRESHOLD /\ ~Truthy(raids[i].completionTime)
        /\ raids[i].addedToSheet})

(* variant: a raid that has its completion time is a target too *)
durationTarget_any(raids, t) ==
    lastIndex({i \in 1..Len(raids) : t - raids[i].timestamp <= TIME_THRESHOLD})

(* variant: the oldest raid that qualifies taken *)
durationTarget_oldest(raids, t) ==
    LET S == {i \in 1..Len(raids) :
                t - raids[i].timestamp <= TIME_THRESHOLD /\ ~Truthy(raids[i].completionTime)}
    IN  IF S = {} THEN 0 ELSE CHOOSE i \in S : \A j \in S : i <= j

durationTarget(raids, t) ==
    lastIndex({i \in 1..Len(raids) :
        t - raids[i].timestamp <= TIME_THRESHOLD /\ ~Truthy(raids[i].completionTime)})

(* variant: a duration event opens a raid without a total *)
handleDurationUpdate_placeholder(s, data, res) ==
    LET c == createRaidEntry(s.recentRaids,
                             [type |-> "points", timestamp |-> data.timestamp,
                              totalPoints |-> NullPoints, raidTime |-> data.raidTime,
                              players |-> <<>>],
                             s.nextId, s.now)
    IN  [s EXCEPT !.recentRaids = c.recentRaids,
                  !.nextId = @ + 1,
                  !.last = Did("duration", "opened", s.nextId, FALSE, data)]

handleDurationUpdate(s, data, res) ==
    LET s1 == [s EXCEPT !.durations = cleanOrphans(@, s.now),
                        !.loots = cleanOrphans(@, s.now)]
        i == durationTarget(s1.recentRaids, s1.now)
    IN  IF i # 0
        THEN LET raid == [s1.recentRaids[i] EXCEPT
                            !.completionTime = data.raidTime,
                            !.scale = IF Truthy(data.scale) THEN data.scale ELSE @]
                 s2 == [s1 EXCEPT !.recentRaids = Put(@, raid)]
             IN  [updateIfAdded(s2, raid, res) EXCEPT
                    !.last = Did("duration", "matched", raid.id,
                                 Updates(raid) /\ res # "ok", data)]
        ELSE [s1 EXCEPT
                !.durations = Append(@, [timestamp |-> data.timestamp,
                                         raidTime |-> data.raidTime,
                                         scale |-> IF Truthy(data.scale) THEN data.scale
                                                   ELSE Null,
                                         playerName |-> IF Truthy(data.playerName)
                                                        THEN data.playerName ELSE Null,
                                         insertedAt |-> s.now]),
                !.last = Did("duration", "orphaned", 0, FALSE, data)]

-----------------------------------------------------------------------------
(* handleLootDrop *)

handleLootDrop(s, data, res) ==
    LET s1 == [s EXCEPT !.durations = cleanOrphans(@, s.now),
                        !.loots = cleanOrphans(@, s.now)]
        i == findRaidForLoot(s1.recentRaids, data, s1.now)
        lootMessage == lootMessageOf(data.playerName, data.itemName)
    IN  IF i = 0
        THEN [s1 EXCEPT
                !.loots = Append(@, [timestamp |-> data.timestamp,
                                     itemName |-> data.itemName,
                                     playerName |-> IF Truthy(data.playerName)
                                                    THEN data.playerName ELSE Null,
                                     insertedAt |-> s.now]),
                !.last = Did("loot", "orphaned", 0, FALSE, data)]
        ELSE IF /\ Truthy(s1.recentRaids[i].uniqueDrop)
                /\ Truthy(data.playerName)
                /\ Includes(s1.recentRaids[i].uniqueDrop, "(" \o data.playerName \o ")")
        THEN [s1 EXCEPT !.last = Did("loot", "duplicate", s1.recentRaids[i].id, FALSE, data)]
        ELSE LET raid == [s1.recentRaids[i] EXCEPT !.uniqueDrop = appendLoot(@, lootMessage)]
                 s2 == [s1 EXCEPT !.recentRaids = Put(@, raid)]
             IN  [updateIfAdded(s2, raid, res) EXCEPT
                    !.last = Did("loot", "matched", raid.id,
                                 Updates(raid) /\ res # "ok", data)]

-----------------------------------------------------------------------------
(* appendToSheet: the entry point *)

(* lines 865-873: the handler of the event's type; any other type throws *)
(* variant: any other type is handled as a loot event *)
dispatch_default(s, data, res) ==
    IF data.type = "points" THEN handleRaidCompletion(s, data, res)
    ELSE IF data.type = "duration" THEN handleDurationUpdate(s, data, res)
    ELSE handleLootDrop(s, data, res)

dispatch(s, data, res) ==
    IF data.type = "points" THEN handleRaidCompletion(s, data, res)
    ELSE IF data.type = "duration" THEN handleDurationUpdate(s, data, res)
    ELSE IF data.type = "loot" THEN handleLootDrop(s, data, res)
    ELSE [s EXCEPT !.last = Did(data.type, "unknown", 0, TRUE, data)]

(* lines 874-877: the catch block logs the error and throws it again *)
(* variant: the error is logged only *)
rethrow_logOnly(outcome) == [outcome EXCEPT !.last.threw = FALSE]

rethrow(outcome) == outcome

appendToSheet(s, data, res) == rethrow(dispatch(s, data, res))

(* the events the parsers build *)
PointsData(timestamp, totalPoints, players) ==
    [type |-> "points", timestamp |-> timestamp, totalPoints |-> totalPoints,
     raidTime |-> Null, players |-> players]

DurationData(timestamp, raidTime, scale) ==
    [type |-> "duration", timestamp |-> timestamp, raidTime |-> raidTime,
     scale |-> scale, playerName |-> Null]

LootData(timestamp, playerName, itemName) ==
    [type |-> "loot", timestamp |-> timestamp, playerName |-> playerName,
     itemName |-> itemName]

-----------------------------------------------------------------------------
(* The state machine.  Each specification below draws the events from its   *)
(* own small sets; the steps themselves are the same.                       *)

NoData == [type |-> "none"]

(* index.js at load: nothing queued, no drain running *)
QueueInit ==
    /\ messageQueue = <<>>
    /\ isProcessingQueue = FALSE
    /\ processing = {}
    /\ arrived = 0
    /\ begun = <<>>
    /\ settled = <<>>
    /\ answers = 0

(* googleSheets.js after the initialization at module load (lines 881-888) *)
GatewayInit ==
    /\ lastRateLimitError = 0
    /\ sheetsClient = TRUE
    /\ gateway = {}
    /\ requests = <<>>

Init ==
    /\ QueueInit
    /\ GatewayInit
    /\ now = 0
    /\ recentRaids = <<>>
    /\ durations = <<>>
    /\ loots = <<>>
    /\ sheet = <<HeaderRow>>
    /\ timers = {}
    /\ detached = {}
    /\ nextId = 1
    /\ calls = {}
    /\ last = Did("init", "", 0, FALSE, NoData)
    /\ seen = <<>>
    /\ first = [type |-> "none", totalPoints |-> 0, timestamp |-> 0, inScope |-> TRUE,
                reported |-> 0]
    /\ script = NoData

Apply(s) ==
    /\ now' = s.now
    /\ recentRaids' = s.recentRaids
    /\ durations' = s.durations
    /\ loots' = s.loots
    /\ sheet' = s.sheet
    /\ timers' = s.timers
    /\ detached' = s.detached
    /\ nextId' = s.nextId
    /\ calls' = s.calls
    /\ last' = s.last

InBounds(s, maxRaids, maxOrphans) ==
    /\ s.nextId <= maxRaids + 1
    /\ Len(s.durations) <= maxOrphans
    /\ Len(s.loots) <= maxOrphans

(* one call of appendToSheet, from the parsed message to the settled promise *)
Handle(data, res, maxRaids, maxOrphans) ==
    \E s \in {appendToSheet(Cur, data, res)} :
        InBounds(s, maxRaids, maxOrphans) /\ Apply(s)

(* a pending setTimeout callback runs when it is due *)
RunTimer(results) ==
    \E tm \in timers, res \in results :
        /\ tm.due <= now
        /\ \E s \in {delayedUpdate(Cur, tm, res)} : Apply(s)

(* time passes, up to the next pending callback *)
Pass(steps, maxSeconds) ==
    /\ \E d \in steps \cup {tm.due - now : tm \in timers} :
          /\ d > 0
          /\ now + d <= maxSeconds * 1000
          /\ \A tm \in timers : now + d <= tm.due
          /\ now' = now + d
    /\ last' = Did("tick", "", 0, FALSE, NoData)
    /\ UNCHANGED <<recentRaids, durations, loots, sheet, timers, detached, nextId, calls>>

Results == {"ok", "fail"}

-----------------------------------------------------------------------------
(* Spec: the points, duration and loot events of one occurrence, in any     *)
(* order, around the 3 s merge window and the 10 s orphan timeout.  An      *)
(* event may carry a timestamp 10 s old; every store call succeeds.         *)

MaxSeconds == 13
MaxRaids == 1
MaxOrphans == 2

Steps == {3000, 10000}
Ages == {0, 10000}
TotalPoints == {291233}
Players == {<<[name |-> "Hyperr", points |-> 94987]>>}
Scales == {"11-15"}
RaidTimes == {"45:43.20"}
LootPlayers == {"Hyperr"}
Items == {"Twisted bow"}

Points ==
    /\ \E tp \in TotalPoints, pl \in Players, age \in Ages :
          Handle(PointsData(now - age, tp, pl), "ok", MaxRaids, MaxOrphans)
    /\ UNCHANGED <<seen, first, script, queueVars, gatewayVars>>

Duration ==
    /\ \E rt \in RaidTimes, sc \in Scales, age \in Ages :
          Handle(DurationData(now - age, rt, sc), "ok", MaxRaids, MaxOrphans)
    /\ UNCHANGED <<seen, first, script, queueVars, gatewayVars>>

Loot ==
    /\ \E pn \in LootPlayers, it \in Items, age \in Ages :
          Handle(LootData(now - age, pn, it), "ok", MaxRaids, MaxOrphans)
    /\ UNCHANGED <<seen, first, script, queueVars, gatewayVars>>

Tick ==
    /\ Pass(Steps, MaxSeconds)
    /\ UNCHANGED <<seen, first, script, queueVars, gatewayVars>>

Next == Points \/ Duration \/ Loot \/ Tick

Spec == Init /\ [][Next]_vars

-----------------------------------------------------------------------------
(* SpecScore: the points events of one occurrence, reported by a roster of  *)
(* players, with totals around the 500 point tolerance and processing times *)
(* around the 120 s window.  The names are interchangeable, so a name is    *)
(* reported for the first time only after the names before it in the        *)
(* roster; any name already reported may report again.  The sequence        *)
(* ends with the first event outside the tolerance or the window.           *)

ScoreMaxSeconds == 121
ScoreMaxRaids == 2

Roster == <<"Hyperr", "rg44", "dot o", "p4", "p5", "p6", "p7">>
RosterScores == [n \in {"Hyperr"} |-> {94987, 50000, 1999}]
                 @@ [n \in {"rg44"} |-> {94394}]
                 @@ [n \in {"dot o"} |-> {101852}]
                 @@ [n \in {"p4"} |-> {MIN_POINTS_THRESHOLD}]
                 @@ [n \in {"p5"} |-> {MIN_POINTS_THRESHOLD - 1}]
                 @@ [n \in {"p6", "p7"} |-> {60000}]
ScoreTotals == {291233, 291233 + POINTS_TOLERANCE, 291234 + POINTS_TOLERANCE}
ScoreAges == {0, POINTS_TIME_WINDOW}
ScoreSteps == {POINTS_TIME_WINDOW, POINTS_TIME_WINDOW + 1}

(* the participants with points >= 2000, de-duplicated by name in first-arrival order *)
RECURSIVE Union(_, _)
Union(list, players) ==
    IF players = <<>> THEN list
    ELSE Union(IF Head(players).points >= MIN_POINTS_THRESHOLD
                  /\ \A i \in 1..Len(list) : list[i].name # Head(players).name
               THEN Append(list, Head(players)) ELSE list,
               Tail(players))

Track(data) ==
    LET k == CHOOSE i \in 1..Len(Roster) : Roster[i] = data.players[1].name
        started == first.type # "none"
        tp == IF started THEN first.totalPoints ELSE data.totalPoints
        ts == IF started THEN first.timestamp ELSE data.timestamp
        inScope == /\ first.inScope
                   /\ Abs(data.totalPoints - tp) <= POINTS_TOLERANCE
                   /\ now - ts <= POINTS_TIME_WINDOW
    IN  /\ first' = [type |-> "first", totalPoints |-> tp, timestamp |-> ts,
                     inScope |-> inScope,
                     reported |-> IF k > first.reported THEN k ELSE first.reported]
        /\ seen' = IF inScope THEN Union(seen, data.players) ELSE seen

NextReporter ==
    IF first.reported < Len(Roster) THEN first.reported + 1 ELSE Len(Roster)

(* a points event of the roster; only the event that opens the occurrence is late *)
RosterPoints(totals, ages, results, maxRaids) ==
    /\ first.inScope
    /\ \E tp \in totals, k \in 1..NextReporter, age \in ages, res \in results :
        \E pts \in RosterScores[Roster[k]] :
          LET data == PointsData(now - age, tp, <<[name |-> Roster[k], points |-> pts]>>)
          IN  /\ age = 0 \/ recentRaids = <<>>
              /\ Track(data)
              /\ Handle(data, res, maxRaids, 0)
    /\ UNCHANGED <<script, queueVars, gatewayVars>>

ScorePoints == RosterPoints(ScoreTotals, ScoreAges, {"ok"}, ScoreMaxRaids)

ScoreTick ==
    /\ Pass(ScoreSteps, ScoreMaxSeconds)
    /\ UNCHANGED <<seen, first, script, queueVars, gatewayVars>>

NextScore == ScorePoints \/ ScoreTick

SpecScore == Init /\ [][NextScore]_vars

-----------------------------------------------------------------------------
C2_Step ==
    /\ \A i \in 1..Len(recentRaids) : \A j \in 1..Len(recentRaids') :
          (recentRaids[i].id = recentRaids'[j].id
             /\ recentRaids[i].totalPoints # NullPoints)
          => recentRaids'[j].totalPoints = recentRaids[i].totalPoints
    /\ \A i \in 1..Len(recentRaids) :
          LET raid == recentRaids[i]
              data == last'.data
          IN  (/\ last'.type = "points"
               /\ now - raid.timestamp <= POINTS_TIME_WINDOW
               /\ Abs(raid.totalPoints - data.totalPoints) <= POINTS_TOLERANCE
               /\ data.totalPoints # raid.totalPoints)
              => /\ nextId' = nextId
                 /\ Len(recentRaids') = Len(recentRaids)
                 /\ recentRaids'[i].totalPoints = raid.totalPoints
                 /\ (data.players[1].points >= MIN_POINTS_THRESHOLD
                       /\ Len(raid.players) < MAX_PLAYERS)
                    => HasPlayer(recentRaids'[i].players, data.players[1].name)

C2_TotalPointsFirstWins == [][C2_Step]_vars

(* 291733 after 291233: one raid, two players, the total still 291233 *)
C2_Witness ==
    /\ Len(recentRaids) = 1
    /\ Len(recentRaids[1].players) = 2
    /\ last.type = "points" /\ last.path = "added"
    /\ last.data.totalPoints # recentRaids[1].totalPoints
    /\ recentRaids[1].players[2].name = last.data.players[1].name

-----------------------------------------------------------------------------
(* SpecFull: the roster reports one occurrence, the store may fail any call *)
(* and the delayed updates run.                                             *)

FullMaxSeconds == 2
FullMaxRaids == 1

FullTotals == {291233}
FullSteps == {DELAYED_UPDATE_DELAY}

FullPoints == RosterPoints(FullTotals, {0}, Results, FullMaxRaids)

FullTimer ==
    /\ RunTimer(Results)
    /\ UNCHANGED <<seen, first, script, queueVars, gatewayVars>>

FullTick ==
    /\ Pass(FullSteps, FullMaxSeconds)
    /\ UNCHANGED <<seen, first, script, queueVars, gatewayVars>>

NextFull == FullPoints \/ FullTimer \/ FullTick

SpecFull == Init /\ [][NextFull]_vars

(* C3: every raid in recentRaids has at most 5 players with pairwise         *)
(* distinct names and points >= 2000 each; a points event for a raid that    *)
(* already has 5 players leaves the raid's players as they are, issues no    *)
(* store call and does not throw.                                            *)
C3_Players ==
    \A i \in 1..Len(recentRaids) :
        LET players == recentRaids[i].players
        IN  /\ Len(players) <= MAX_PLAYERS
            /\ \A a, b \in 1..Len(players) : a # b => players[a].name # players[b].name
            /\ \A a \in 1..Len(players) : players[a].points >= MIN_POINTS_THRESHOLD

C3_Step ==
    \A i \in 1..Len(recentRaids) :
        (/\ last'.type = "points"
         /\ last'.rid = recentRaids[i].id
         /\ Len(recentRaids[i].players) = MAX_PLAYERS)
        => /\ ~last'.threw
           /\ Len(recentRaids') = Len(recentRaids)
           /\ recentRaids'[i].players = recentRaids[i].players
           /\ calls' = calls

-----------------------------------------------------------------------------
(* SpecRegistry: eleven occurrences and more, each opened by one points     *)
(* event whose total is far from every other total.  The first events may   *)
(* carry a timestamp 250 s old, the first appends may fail, and a minute    *)
(* may pass between two events.                                             *)

RegistryMaxSeconds == 61
RegistryMaxRaids == 11
RegistryLate == 5
RegistryFailures == 3

RegistrySteps == {60000}
RegistryAges == {0, 250000}
RegistryPlayers == <<[name |-> "Hyperr", points |-> 94987]>>

RegistryTotal(id) == 100000 + 1000 * id

RegistryPoints ==
    /\ \E age \in RegistryAges, res \in Results :
          /\ age = 0 \/ nextId <= RegistryLate
          /\ res = "ok" \/ nextId <= RegistryFailures
          /\ Handle(PointsData(now - age, RegistryTotal(nextId), RegistryPlayers),
                    res, RegistryMaxRaids, 0)
    /\ UNCHANGED <<seen, first, script, queueVars, gatewayVars>>

RegistryTick ==
    /\ Pass(RegistrySteps, RegistryMaxSeconds)
    /\ UNCHANGED <<seen, first, script, queueVars, gatewayVars>>

NextRegistry == RegistryPoints \/ RegistryTick

SpecRegistry == Init /\ [][NextRegistry]_vars

(* C4: recentRaids never holds more than 10 raids; when it holds 10 and a    *)
(* points event creates a raid, the raid at the front is removed, persisted  *)
(* or not, nothing is removed from anywhere but the front, and the new raid  *)
(* is kept at the end.                                                       *)
C4_Step ==
    (last'.type = "points" /\ last'.path = "created"
       /\ Len(recentRaids) = MAX_RAID_HISTORY)
    => /\ Len(recentRaids') >= 1
       /\ IndexOfId(recentRaids', recentRaids[1].id) = 0
       /\ recentRaids'[Len(recentRaids')].id = nextId
       /\ \E k \in 1..MAX_RAID_HISTORY :
             Take(recentRaids', Len(recentRaids') - 1)
                = SubSeq(recentRaids, k + 1, MAX_RAID_HISTORY)

C4_AtMostTenOldestEvicted ==
    [](Len(recentRaids) <= MAX_RAID_HISTORY) /\ [][C4_Step]_vars

(* the eleventh raid created into a full buffer whose front raid was never persisted *)
C4_Witness ==
    /\ last.type = "points" /\ last.path = "created"
    /\ nextId = MAX_RAID_HISTORY + 2
    /\ Len(recentRaids) = MAX_RAID_HISTORY
    /\ recentRaids[1].id = 2
    /\ Call("append", [id |-> 1, scale |-> ""]) \in calls
    /\ \A i \in 1..Len(sheet) : sheet[i].rid # 1

(* C5: right after a points event has created a raid, no raid in recentRaids *)
(* has a timestamp more than 300 s before now.                               *)
C5_NoExpiredAfterCreate ==
    (last.type = "points" /\ last.path = "created")
    => \A i \in 1..Len(recentRaids) : now - recentRaids[i].timestamp <= RAID_TIMEOUT

-----------------------------------------------------------------------------
(* the number of places where pat occurs in str *)
CountOf(str, pat) ==
    Cardinality({i \in 1..(Len(str) - Len(pat) + 1) :
                    SubSeq(str, i, i + Len(pat) - 1) = pat})

(* C6: no raid's uniqueDrop holds more than one entry for the same named     *)
(* player, whether the loot events were matched to the raid directly or      *)
(* buffered as orphans and merged when the raid was created.                 *)
C6_OneLootPerPlayer ==
    \A i \in 1..Len(recentRaids) : \A pn \in LootPlayers :
        CountOf(recentRaids[i].uniqueDrop, "(" \o pn \o ")") <= 1

(* C7 as stated: a loot event processed when no raid of the last 60 s exists *)
(* is appended to the loot orphans; when a points event then creates a raid  *)
(* whose timestamp is 0 to 3000 ms after the orphan's timestamp, the raid's  *)
(* uniqueDrop contains "(player) - item" and the orphan has left the buffer. *)
C7_Buffered ==
    (/\ last'.type = "loot"
     /\ \A i \in 1..Len(recentRaids) : now - recentRaids[i].timestamp > LOOT_TIME_WINDOW)
    => /\ last'.path = "orphaned"
       /\ Len(loots') >= 1
       /\ loots'[Len(loots')].timestamp = last'.data.timestamp
       /\ loots'[Len(loots')].playerName = last'.data.playerName
       /\ loots'[Len(loots')].itemName = last'.data.itemName

C7_Merged(o) ==
    /\ \E j \in 1..Len(recentRaids') :
          /\ recentRaids'[j].id = last'.rid
          /\ Includes(recentRaids'[j].uniqueDrop, lootMessageOf(o.playerName, o.itemName))
    /\ \A k \in 1..Len(loots') : loots'[k] # o

C7_StepAsStated ==
    /\ C7_Buffered
    /\ (last'.type = "points" /\ last'.path = "created")
       => \A k \in 1..Len(loots) :
             (/\ last'.data.timestamp - loots[k].timestamp >= 0
              /\ last'.data.timestamp - loots[k].timestamp <= MERGE_WINDOW)
             => C7_Merged(loots[k])

C7_AsStated == [][C7_StepAsStated]_vars

(* C7: the same, for a points event that is processed no later than 10 s     *)
(* after the orphan's timestamp; an older orphan is discarded, not merged.   *)
C7_Step ==
    /\ C7_Buffered
    /\ (last'.type = "points" /\ last'.path = "created")
       => \A k \in 1..Len(loots) :
             (/\ last'.data.timestamp - loots[k].timestamp >= 0
              /\ last'.data.timestamp - loots[k].timestamp <= MERGE_WINDOW)
             => IF now - loots[k].timestamp <= ORPHAN_TIMEOUT
                THEN C7_Merged(loots[k])
                ELSE /\ \A j \in 1..Len(last'.usedLoots) : last'.usedLoots[j] # loots[k]
                     /\ \A j \in 1..Len(loots') : loots'[j] # loots[k]

C7_OrphanLootMerged == [][C7_Step]_vars

(* a raid created with the timestamp of a buffered loot, processed 10 s after it *)
C7_Witness ==
    /\ last.type = "points" /\ last.path = "created"
    /\ Len(last.usedLoots) = 1
    /\ last.data.timestamp - last.usedLoots[1].timestamp \in 0..MERGE_WINDOW
    /\ now - last.usedLoots[1].timestamp = ORPHAN_TIMEOUT
    /\ Len(recentRaids) = 1
    /\ recentRaids[1].uniqueDrop = "(Hyperr) - Twisted bow"
    /\ loots = <<>>

(* C8: an orphan inserted at time t is not merged into a raid by an event    *)
(* processed at t + 10001 ms or later: every orphan an event merges was      *)
(* inserted at most 10 s before.                                             *)
C8_OrphanTimeout ==
    /\ \A k \in 1..Len(last.usedDurations) :
          now - last.usedDurations[k].insertedAt <= ORPHAN_TIMEOUT
    /\ \A k \in 1..Len(last.usedLoots) :
          now - last.usedLoots[k].insertedAt <= ORPHAN_TIMEOUT

(* a duration orphan and a loot orphan merged exactly 10 s after their insertion *)
C8_Witness ==
    /\ last.type = "points" /\ last.path = "created"
    /\ Len(last.usedDurations) = 1
    /\ Len(last.usedLoots) >= 1
    /\ now - last.usedDurations[1].insertedAt = ORPHAN_TIMEOUT
    /\ now - last.usedLoots[1].insertedAt = ORPHAN_TIMEOUT

-----------------------------------------------------------------------------
(* SpecGate: one occurrence of a small or a large team: its duration event  *)
(* before or after its points events, a loot event, and the delayed updates. *)

GateMaxSeconds == 4
GateMaxRaids == 1
GateMaxOrphans == 1

GateSteps == {DELAYED_UPDATE_DELAY}
GateScales == {Null, "8-10", "11-15"}

GatePoints ==
    /\ \E tp \in TotalPoints, pl \in Players \cup {<<[name |-> "rg44", points |-> 94394]>>} :
          Handle(PointsData(now, tp, pl), "ok", GateMaxRaids, GateMaxOrphans)
    /\ UNCHANGED <<seen, first, script, queueVars, gatewayVars>>

GateDuration ==
    /\ \E rt \in RaidTimes, sc \in GateScales :
          Handle(DurationData(now, rt, sc), "ok", GateMaxRaids, GateMaxOrphans)
    /\ UNCHANGED <<seen, first, script, queueVars, gatewayVars>>

GateLoot ==
    /\ \E pn \in LootPlayers, it \in Items :
          Handle(LootData(now, pn, it), "ok", GateMaxRaids, GateMaxOrphans)
    /\ UNCHANGED <<seen, first, script, queueVars, gatewayVars>>

GateTimer ==
    /\ RunTimer({"ok"})
    /\ UNCHANGED <<seen, first, script, queueVars, gatewayVars>>

GateTick ==
    /\ Pass(GateSteps, GateMaxSeconds)
    /\ UNCHANGED <<seen, first, script, queueVars, gatewayVars>>

NextGate == GatePoints \/ GateDuration \/ GateLoot \/ GateTimer \/ GateTick

SpecGate == Init /\ [][NextGate]_vars

(* C9: no append and no update is issued to the store for a raid whose scale *)
(* has a leading number below 10, whether the duration event that carries    *)
(* the scale is processed before the points event that creates the raid or   *)
(* after it; the raid stays in recentRaids.                                  *)
C9_Step ==
    /\ \A c \in calls' \ calls : isScaleLargeEnough(c.scale)
    /\ \A i \in 1..Len(recentRaids) :
          ~isScaleLargeEnough(recentRaids[i].scale)
          => IndexOfId(recentRaids', recentRaids[i].id) # 0

C9_NoStoreCallForSmallTeam == [][C9_Step]_vars

-----------------------------------------------------------------------------
(* SpecOrder: the three points events of one occurrence in their order and  *)
(* its duration event before, between or after them.  script holds the      *)
(* position of the duration event (the number of points events processed    *)
(* before it), the time that passes before each processed event, the scale  *)
(* and the number of events processed so far.  An event's timestamp is the  *)
(* time at which it is parsed, which is the time at which it is processed.  *)

OrderMaxSeconds == 121
OrderMaxRaids == 1
OrderMaxOrphans == 1

OrderGaps == {0, MERGE_WINDOW, MERGE_WINDOW + 1, TIME_THRESHOLD, TIME_THRESHOLD + 1}
OrderScales == {Null, "8-10", "11-15"}
OrderTotal == 291233
OrderPlayers == <<[name |-> "Hyperr", points |-> 94987],
                  [name |-> "rg44", points |-> 94394],
                  [name |-> "dot o", points |-> 101852]>>
OrderEvents == Len(OrderPlayers) + 1

(* the time at which the k-th event is processed *)
RECURSIVE OrderTime(_, _)
OrderTime(gaps, k) == IF k = 0 THEN 0 ELSE OrderTime(gaps, k - 1) + gaps[k]

(* the k-th event processed when pos points events come before the duration event *)
OrderEvent(scale, pos, k, t) ==
    IF k = pos + 1 THEN DurationData(t, "45:43.20", scale)
    ELSE PointsData(t, OrderTotal, <<OrderPlayers[IF k <= pos THEN k ELSE k - 1]>>)

Start ==
    [now |-> 0, recentRaids |-> <<>>, durations |-> <<>>, loots |-> <<>>,
     sheet |-> <<HeaderRow>>, timers |-> {}, detached |-> {}, nextId |-> 1,
     calls |-> {}, last |-> Did("init", "", 0, FALSE, NoData)]

(* the state after the events from the k-th on, processed one after the other *)
RECURSIVE Run(_, _, _, _)
Run(s, sc, pos, k) ==
    IF k > OrderEvents THEN s
    ELSE LET t == OrderTime(sc.gaps, k)
         IN  Run(appendToSheet([s EXCEPT !.now = t],
                               OrderEvent(sc.scale, pos, k, t), "ok"),
                 sc, pos, k + 1)

(* what the claim compares: the fields of the raids in memory *)
Record(raids) ==
    [i \in 1..Len(raids) |->
        [totalPoints |-> raids[i].totalPoints, players |-> raids[i].players,
         completionTime |-> raids[i].completionTime, scale |-> raids[i].scale]]

InitOrder ==
    /\ QueueInit
    /\ GatewayInit
    /\ now = Start.now
    /\ recentRaids = Start.recentRaids
    /\ durations = Start.durations
    /\ loots = Start.loots
    /\ sheet = Start.sheet
    /\ timers = Start.timers
    /\ detached = Start.detached
    /\ nextId = Start.nextId
    /\ calls = Start.calls
    /\ last = Start.last
    /\ seen = <<>>
    /\ first = [type |-> "none", totalPoints |-> 0, timestamp |-> 0, inScope |-> TRUE,
                reported |-> 0]
    /\ \E pos \in 0..Len(OrderPlayers), scale \in OrderScales,
          gaps \in [1..OrderEvents -> OrderGaps] :
          /\ gaps[1] = 0
          /\ OrderTime(gaps, OrderEvents) <= POINTS_TIME_WINDOW
          /\ script = [type |-> "order", pos |-> pos, gaps |-> gaps, scale |-> scale,
                       step |-> 0]

OrderNext ==
    /\ script.step < OrderEvents
    /\ now = OrderTime(script.gaps, script.step + 1)
    /\ Handle(OrderEvent(script.scale, script.pos, script.step + 1, now), "ok",
              OrderMaxRaids, OrderMaxOrphans)
    /\ script' = [script EXCEPT !.step = @ + 1]
    /\ UNCHANGED <<seen, first, queueVars, gatewayVars>>

OrderTimer ==
    /\ RunTimer({"ok"})
    /\ UNCHANGED <<seen, first, script, queueVars, gatewayVars>>

OrderTick ==
    /\ script.step < OrderEvents
    /\ Pass({OrderTime(script.gaps, script.step + 1) - now}, OrderMaxSeconds)
    /\ UNCHANGED <<seen, first, script, queueVars, gatewayVars>>

NextOrder == OrderNext \/ OrderTimer \/ OrderTick

SpecOrder == InitOrder /\ [][NextOrder]_vars


(* the duration event reaches the raid: as an orphan it is at most 3000 ms  *)
(* older than the raid, otherwise it is processed within 60 s of the raid   *)
Timely(gaps, pos) ==
    IF pos = 0 THEN gaps[2] <= MERGE_WINDOW
    ELSE OrderTime(gaps, pos + 1) - OrderTime(gaps, 1) <= TIME_THRESHOLD

(* C10 as stated: whatever the position of the duration event among the     *)
(* points events, the raid in memory ends with the same totalPoints,        *)
(* players, completionTime and scale.                                        *)
C10_AsStated ==
    script.step = OrderEvents
    => \A q \in 0..Len(OrderPlayers) :
          Record(recentRaids) = Record(Run(Start, script, q, 1).recentRaids)

(* C10: the same for the positions at which the duration event reaches the  *)
(* raid: processed first, at most 3000 ms before the first points event;    *)
(* processed later, within 60 s of the raid's timestamp.                    *)
C10_SameRecord ==
    (script.step = OrderEvents /\ Timely(script.gaps, script.pos))
    => \A q \in 0..Len(OrderPlayers) :
          Timely(script.gaps, q)
          => Record(recentRaids) = Record(Run(Start, script, q, 1).recentRaids)

(* the duration event of a small team first, 3000 ms before the points events *)
C10_Witness ==
    /\ script.step = OrderEvents
    /\ script.pos = 0
    /\ script.gaps[2] = MERGE_WINDOW
    /\ Timely(script.gaps, Len(OrderPlayers))
    /\ Len(recentRaids) = 1
    /\ recentRaids[1].completionTime = "45:43.20"
    /\ recentRaids[1].scale = "8-10"
    /\ recentRaids[1].totalPoints = OrderTotal
    /\ recentRaids[1].players = OrderPlayers

-----------------------------------------------------------------------------
(* A handler in two parts: the code up to the store call it awaits, and the *)
(* code after the call has settled.  A handler awaits at most one store     *)
(* call, and it is the last thing it does before its bookkeeping.           *)

(* the store call the handler awaits, read off the state f the handler leaves *)
(* when the call fails: the raid, the row built before the call, the row number *)
pendingCall(f, raid) ==
    [type |-> "call",
     op |-> IF Updates(raid) THEN "update" ELSE "append",
     rid |-> raid.id,
     rowNumber |-> raid.sheetRow,
     row |-> raidToRow(raid),
     did |-> f.last]

suspended(f, data) ==
    IF data.type \in {"points", "duration", "loot"} /\ f.last.threw
    THEN [state |-> [f EXCEPT !.last.threw = FALSE],
          pending |-> pendingCall(f, f.recentRaids[IndexOfId(f.recentRaids, f.last.rid)])]
    ELSE [state |-> f, pending |-> NoData]

(* the synchronous part: the state it leaves and the store call it awaits *)
begin(s, data) == suspended(appendToSheet(s, data, "fail"), data)

(* lines 489-497 and 726-738, 556-563: the store call p settles with res *)
settle(s, p, res) ==
    LET s0 == [s EXCEPT !.last = [p.did EXCEPT !.threw = res # "ok"]]
    IN  IF res # "ok" THEN s0
        ELSE IF p.op = "append"
        THEN LET sh == sheetAppend(s.sheet, p.rid, p.row)
                 mark(r) == IF r.id = p.rid THEN appended(r, Len(sh)) ELSE r
             IN  [s0 EXCEPT !.sheet = sh,
                            !.recentRaids = [i \in 1..Len(@) |-> mark(@[i])],
                            !.detached = {mark(r) : r \in @}]
        ELSE [s0 EXCEPT !.sheet = sheetUpdate(@, p.rowNumber, p.rid, p.row)]

-----------------------------------------------------------------------------
(* index.js: the message queue (lines 194-223) *)

(* line 199: a drain starts unless one is running or nothing is queued *)
(* variant: the running drain is not looked at *)
canStart_unguarded(flag, queue) == queue # <<>>

canStart(flag, queue) == ~flag /\ queue # <<>>

(* line 206: messageQueue.shift() *)
(* variant: the newest message taken *)
takeNext_newest(queue) ==
    [message |-> queue[Len(queue)], rest |-> Take(queue, Len(queue) - 1)]

takeNext(queue) == [message |-> Head(queue), rest |-> Tail(queue)]

(* lines 207-213: resolve or reject, and the loop goes on either way *)
(* variant: a rejected message ends the loop *)
goesOn_unlessRejected(rejected) == ~rejected

goesOn(rejected) == TRUE

(* parseRaidNotification stamps the event when the message is processed *)
parsed(message, t) == [message.content EXCEPT !.timestamp = t]

QCur == [s |-> Cur, messageQueue |-> messageQueue,
         isProcessingQueue |-> isProcessingQueue, processing |-> processing,
         arrived |-> arrived, begun |-> begun, settled |-> settled,
         answers |-> answers]

(* lines 208-212: the promise of the message is resolved or rejected *)
settleMessage(q, id, rejected) ==
    [q EXCEPT !.settled = Append(@, [id |-> id, rejected |-> rejected])]

(* lines 205-215: the while loop, up to the next suspension *)
RECURSIVE drainLoop(_)

(* line 206 done: the message is taken from the queue, its processing begins *)
taken(q, n) ==
    [q EXCEPT !.messageQueue = n.rest, !.begun = Append(@, n.message)]

(* lines 208-212 *)
processed(q, id, b) ==
    IF b.pending.type = "call"
    THEN [q EXCEPT !.s = b.state,
                   !.processing = @ \cup {[id |-> id, pending |-> b.pending]}]
    ELSE IF goesOn(b.state.last.threw)
    THEN drainLoop(settleMessage([q EXCEPT !.s = b.state], id, b.state.last.threw))
    ELSE settleMessage([q EXCEPT !.s = b.state], id, b.state.last.threw)

shifted(q, n) ==
    processed(taken(q, n), n.message.id, begin(q.s, parsed(n.message, q.s.now)))

drainLoop(q) ==
    IF q.messageQueue = <<>> THEN [q EXCEPT !.isProcessingQueue = FALSE]
    ELSE shifted(q, takeNext(q.messageQueue))

(* processMessage has settled after its store call: the loop goes on *)
resume(q, id, rejected) ==
    IF goesOn(rejected) THEN drainLoop(settleMessage(q, id, rejected))
    ELSE settleMessage(q, id, rejected)

processMessageQueue(q) ==
    IF canStart(q.isProcessingQueue, q.messageQueue)
    THEN drainLoop([q EXCEPT !.isProcessingQueue = TRUE])
    ELSE q

(* variant: a message that arrives while a drain is running is not queued *)
queueMessage_busy(q, message) ==
    IF q.isProcessingQueue THEN [q EXCEPT !.arrived = @ + 1]
    ELSE processMessageQueue([q EXCEPT !.messageQueue = Append(@, message),
                                       !.arrived = @ + 1])

queueMessage(q, message) ==
    processMessageQueue([q EXCEPT !.messageQueue = Append(@, message),
                                  !.arrived = @ + 1])

ApplyQueue(q) ==
    /\ Apply(q.s)
    /\ messageQueue' = q.messageQueue
    /\ isProcessingQueue' = q.isProcessingQueue
    /\ processing' = q.processing
    /\ arrived' = q.arrived
    /\ begun' = q.begun
    /\ settled' = q.settled
    /\ answers' = q.answers

-----------------------------------------------------------------------------------------------------------------------------------------------------
(* messageCreate (lines 306-316): the message is queued, and processed at   *)
(* once if no drain runs                                                     *)
Arrive(maxMessages, contents, maxRaids, maxOrphans) ==
    /\ arrived < maxMessages
    /\ \E c \in contents :
          \E q \in {queueMessage(QCur, [id |-> arrived + 1, content |-> c,
                                           waited |-> isProcessingQueue])} :
              /\ InBounds(q.s, maxRaids, maxOrphans)
              /\ ApplyQueue(q)

(* the store call of the suspended message settles; the drain goes on *)
Settle(results, maxRaids, maxOrphans) ==
    \E w \in processing, res \in results :
        \E q \in {resume([QCur EXCEPT !.s = settle(Cur, w.pending, res),
                                      !.processing = @ \ {w},
                                      !.answers = @ + 1],
                         w.id, res # "ok")} :
            /\ InBounds(q.s, maxRaids, maxOrphans)
            /\ ApplyQueue(q)

-----------------------------------------------------------------------------
(* SpecQueue: messages arrive at any time, also while the message being     *)
(* processed is suspended in its store call; the store may fail any call.   *)

QueueMaxMessages == 3
QueueMaxSeconds == 2
QueueMaxRaids == 1
QueueMaxOrphans == 1

QueueSteps == {DELAYED_UPDATE_DELAY}
QueueContents ==
    {PointsData(0, 291233, <<[name |-> "Hyperr", points |-> 94987]>>),
     PointsData(0, 291233, <<[name |-> "rg44", points |-> 94394]>>),
     DurationData(0, "45:43.20", "11-15")}

QueueArrive ==
    /\ Arrive(QueueMaxMessages, QueueContents, QueueMaxRaids, QueueMaxOrphans)
    /\ UNCHANGED <<seen, first, script, gatewayVars>>

QueueSettle ==
    /\ Settle(Results, QueueMaxRaids, QueueMaxOrphans)
    /\ UNCHANGED <<seen, first, script, gatewayVars>>

QueueTimer ==
    /\ RunTimer(Results)
    /\ UNCHANGED <<seen, first, script, queueVars, gatewayVars>>

QueueTick ==
    /\ Pass(QueueSteps, QueueMaxSeconds)
    /\ UNCHANGED <<seen, first, script, queueVars, gatewayVars>>

NextQueue == QueueArrive \/ QueueSettle \/ QueueTimer \/ QueueTick

SpecQueue == Init /\ [][NextQueue]_vars

(* C11: at most one message is being processed at any time, and messages    *)
(* begin and end processing in exactly the order in which they were         *)
(* enqueued, also when messages arrive while the current one is suspended   *)
(* in its store call: a message begins only when every earlier one has      *)
(* ended, and the messages still queued are the later arrivals in order.    *)
C11_OneAtATimeInOrder ==
    /\ Cardinality(processing) <= 1
    /\ \A i \in 1..Len(begun) : begun[i].id = i
    /\ \A i \in 1..Len(settled) : settled[i].id = i
    /\ Len(settled) + Cardinality(processing) = Len(begun)
    /\ \A w \in processing : w.id = Len(begun)
    /\ \A i \in 1..Len(messageQueue) : messageQueue[i].id = Len(begun) + i
    /\ Len(begun) + Len(messageQueue) = arrived

(* the second message arrived during the store call of the first and was    *)
(* begun after it; the third is queued behind the second's store call       *)
C11_Witness ==
    /\ Len(begun) = 2
    /\ begun[2].waited
    /\ \E w \in processing : w.id = 2
    /\ Len(messageQueue) = 1
    /\ messageQueue[1].waited

-----------------------------------------------------------------------------
(* SpecRace: two ScoreEvents of one occurrence; the store call of the first *)
(* may be answered late: after a rate-limit answer appendRow sends again    *)
(* only when the cooldown has elapsed (lines 475-482, 502-511).             *)

RaceMaxMessages == 2
RaceMaxSeconds == 180
RaceMaxRaids == 2
RaceMaxOrphans == 1

RaceSteps == {RATE_LIMIT_COOLDOWN}
RaceContents ==
    {PointsData(0, 291233, <<[name |-> "Hyperr", points |-> 94987]>>),
     PointsData(0, 291233, <<[name |-> "rg44", points |-> 94394]>>)}

RaceArrive ==
    /\ Arrive(RaceMaxMessages, RaceContents, RaceMaxRaids, RaceMaxOrphans)
    /\ UNCHANGED <<seen, first, script, gatewayVars>>

RaceSettle ==
    /\ Settle(Results, RaceMaxRaids, RaceMaxOrphans)
    /\ UNCHANGED <<seen, first, script, gatewayVars>>

RaceTimer ==
    /\ RunTimer(Results)
    /\ UNCHANGED <<seen, first, script, queueVars, gatewayVars>>

RaceTick ==
    /\ Pass(RaceSteps, RaceMaxSeconds)
    /\ UNCHANGED <<seen, first, script, queueVars, gatewayVars>>

NextRace == RaceArrive \/ RaceSettle \/ RaceTimer \/ RaceTick

SpecRace == Init /\ [][NextRace]_vars

(* the row of the store that holds the player's name *)
InStoredRow(rid, name) ==
    \E k \in 2..Len(sheet) :
        /\ sheet[k].rid = rid
        /\ \E c \in 1..Len(sheet[k].cells) : sheet[k].cells[c] = Str(name)

(* C12: when the second ScoreEvent of an occurrence arrived while the       *)
(* append of the first was in flight, and the store accepted the calls of   *)
(* both, exactly one record was created, exactly one row was appended, and  *)
(* the participant of the second event is in that record and in its row.    *)
C12_OneRecordOneRow ==
    (/\ Len(settled) = 2
     /\ begun[1].content.type = "points"
     /\ begun[2].content.type = "points"
     /\ begun[2].waited
     /\ ~settled[1].rejected
     /\ ~settled[2].rejected)
    => /\ nextId = 2
       /\ Len(sheet) = 2
       /\ playerExists(recentRaids[1].players, begun[2].content.players[1])
       /\ InStoredRow(recentRaids[1].id, begun[2].content.players[1].name)

-----------------------------------------------------------------------------
(* SpecQueueFair: every store call is answered or fails (appendRow and      *)
(* updateRow return or throw after their bounded retries), so a suspended   *)
(* processMessage is resumed.  The steps of NextQueue that count an answer  *)
(* are exactly the steps of QueueSettle, which can be taken whenever a      *)
(* message is suspended.                                                    *)
StoreAnswers == processing # {} /\ answers' = answers + 1

SpecQueueFair == Init /\ [][NextQueue]_vars /\ WF_answers(StoreAnswers)

(* C13: when the processing of a message has failed, there comes a moment   *)
(* at which every message enqueued so far, those after the failed one       *)
(* included, has been processed, the queue is empty and the in-flight flag  *)
(* is released; and an arrival after a failure that finds no message being  *)
(* processed finds the flag released and starts a new drain (its            *)
(* processing begins at once).                                              *)
C13_FailureDoesNotHalt ==
    /\ (\E i \in 1..Len(settled) : settled[i].rejected)
          ~> (/\ Len(settled) = arrived
              /\ ~isProcessingQueue /\ messageQueue = <<>> /\ processing = {})
    /\ [][(\E i \in 1..Len(settled) : settled[i].rejected) /\ arrived' = arrived + 1
              /\ processing = {}
          => ~isProcessingQueue /\ Len(begun') = Len(begun) + 1]_vars

(* the first message was rejected, the second, queued during its store     *)
(* call, has been processed; the third arrived after the drain had ended   *)
C13_Witness ==
    /\ Len(settled) = 3
    /\ settled[1].rejected
    /\ begun[2].waited
    /\ ~begun[3].waited
    /\ ~isProcessingQueue

-----------------------------------------------------------------------------
(* SpecEntry: appendToSheet called with events of every type, a type it     *)
(* does not know included, with fresh and stale ScoreEvents, and a store    *)
(* that accepts or refuses each call.                                       *)

EntryMaxSeconds == 2
EntryMaxRaids == 1
EntryMaxOrphans == 1

EntrySteps == {DELAYED_UPDATE_DELAY}
EntryAges == {0, MAX_DATA_AGE, MAX_DATA_AGE + 1}
Recognized == {"points", "duration", "loot"}

EntryData(t) ==
    {PointsData(t, 291233, <<[name |-> "Hyperr", points |-> 94987]>>)}
    \cup {PointsData(t - age, 291233, <<[name |-> "rg44", points |-> 94394]>>) :
             age \in EntryAges}
    \cup {DurationData(t, "45:43.20", "11-15"),
          LootData(t, "Hyperr", "Twisted bow"),
          [type |-> "kc", timestamp |-> t, playerName |-> "Hyperr",
           itemName |-> "Twisted bow"]}

OfType(types, t) == {d \in EntryData(t) : d.type \in types}

EntryPoints ==
    /\ \E data \in OfType({"points"}, now), res \in Results :
          Handle(data, res, EntryMaxRaids, EntryMaxOrphans)
    /\ UNCHANGED <<seen, first, script, queueVars, gatewayVars>>

EntryDuration ==
    /\ \E data \in OfType({"duration"}, now), res \in Results :
          Handle(data, res, EntryMaxRaids, EntryMaxOrphans)
    /\ UNCHANGED <<seen, first, script, queueVars, gatewayVars>>

EntryLoot ==
    /\ \E data \in OfType({"loot"}, now), res \in Results :
          Handle(data, res, EntryMaxRaids, EntryMaxOrphans)
    /\ UNCHANGED <<seen, first, script, queueVars, gatewayVars>>

EntryOther ==
    /\ \E data \in EntryData(now) \ OfType(Recognized, now), res \in Results :
          Handle(data, res, EntryMaxRaids, EntryMaxOrphans)
    /\ UNCHANGED <<seen, first, script, queueVars, gatewayVars>>

EntryTimer ==
    /\ RunTimer(Results)
    /\ UNCHANGED <<seen, first, script, queueVars, gatewayVars>>

EntryTick ==
    /\ Pass(EntrySteps, EntryMaxSeconds)
    /\ UNCHANGED <<seen, first, script, queueVars, gatewayVars>>

NextEntry ==
    EntryPoints \/ EntryDuration \/ EntryLoot \/ EntryOther \/ EntryTimer \/ EntryTick

SpecEntry == Init /\ [][NextEntry]_vars

(* a step that is the call appendToSheet(data) with the store answering     *)
(* res; the event of the call is the one the step leaves in last            *)
Event == IF last'.type \in {"timer", "tick"} THEN NoData ELSE last'.data

Called(data, res) ==
    /\ Event = data
    /\ Handle(data, res, EntryMaxRaids, EntryMaxOrphans)

Events == {"points", "duration", "loot", "kc"}

(* what the call leaves alone: registry, orphan buffer, store, deferred tasks *)
Untouched ==
    UNCHANGED <<recentRaids, durations, loots, sheet, timers, detached, nextId, calls>>

(* C14, as the code has it: appendToSheet throws exactly when the handler   *)
(* of the event threw; for an event of a recognized type it returns         *)
(* normally when the store accepts the handler's call, and an event of an   *)
(* unrecognized type always throws.                                         *)
C14_HandlerErrorsEscape ==
    [][Event.type \in Events =>
          \A res \in Results :
              Called(Event, res) =>
                  /\ last'.threw <=> dispatch(Cur, Event, res).last.threw
                  /\ Event.type \in Recognized /\ res = "ok" => ~last'.threw
                  /\ Event.type \notin Recognized => last'.threw]_vars

(* C14 as stated: appendToSheet returns normally for every event of a       *)
(* recognized type, also when the store refuses the call.                   *)
C14_AsStated ==
    [][Event.type \in Recognized =>
          \A res \in Results : Called(Event, res) => ~last'.threw]_vars

(* the store refused a handler's call, and appendToSheet threw *)
C14_Witness ==
    /\ last.type \in Recognized
    /\ last.threw
    /\ last.rid # 0

(* C15: an event whose type is none of points, duration, loot is rejected   *)
(* with an error, and the registry, the orphan buffer, the store and the    *)
(* deferred tasks are unchanged; no store call is made, with or without     *)
(* retry.                                                                   *)
C15_UnknownTypeRejected ==
    [][Event.type \in Events \ Recognized =>
          \A res \in Results :
              Called(Event, res)
                  => last'.threw /\ last'.path = "unknown" /\ Untouched]_vars

(* an event of an unknown type was rejected while a record was stored *)
C15_Witness ==
    /\ last.type = "kc"
    /\ last.threw
    /\ Len(recentRaids) = 1
    /\ Len(sheet) = 2

(* C16: a ScoreEvent whose timestamp is more than 300 s before now is a     *)
(* no-op: registry, records, orphan buffer and store are unchanged, no      *)
(* deferred task is scheduled and no error is raised.                       *)
C16_StaleIsNoOp ==
    [][Event.type = "points" =>
          \A res \in Results :
              Called(Event, res) /\ now - Event.timestamp > 300 * 1000
                  => Untouched /\ ~last'.threw]_vars

(* a stale ScoreEvent, for a participant the stored record does not have,   *)
(* was dropped                                                              *)
C16_Witness ==
    /\ last.type = "points"
    /\ last.path = "stale"
    /\ now - last.data.timestamp > 300 * 1000
    /\ Len(recentRaids) = 1
    /\ ~playerExists(recentRaids[1].players, last.data.players[1])

(* C20: in every reachable state a record that is marked persisted has a    *)
(* row handle, in the registry and as held by a deferred task.              *)
C20_PersistedHasRow ==
    /\ \A i \in 1..Len(recentRaids) :
          recentRaids[i].addedToSheet => recentRaids[i].sheetRow # NoRow
    /\ \A raid \in detached : raid.addedToSheet => raid.sheetRow # NoRow

(* a record was appended and later updated through its row handle *)
C20_Witness ==
    /\ Len(recentRaids) = 1
    /\ recentRaids[1].addedToSheet
    /\ recentRaids[1].sheetRow = 2
    /\ Len(recentRaids[1].players) = 2
    /\ InStoredRow(recentRaids[1].id, recentRaids[1].players[2].name)

-----------------------------------------------------------------------------
(* googleSheets.js: appendRow and updateRow (lines 471-581)                 *)
(*                                                                          *)
(* A call is a record: op, retryCount (the parameter), attempts (requests   *)
(* sent to the store), limits (rate-limit answers received), the last       *)
(* answer, and where it stands: asleep in the cooldown wait, asleep in the  *)
(* delay before a retry, waiting for the store's answer, returned, thrown.  *)

MAX_RETRIES == 3
RETRY_DELAY == 2000

GCur == [now |-> now, lastRateLimitError |-> lastRateLimitError,
         sheetsClient |-> sheetsClient, gateway |-> gateway, requests |-> requests]

newCall(id, op) ==
    [id |-> id, op |-> op, retryCount |-> 0, attempts |-> 0, limits |-> 0,
     answer |-> "none", pc |-> "entered", wake |-> 0]

put(g, c) == [g EXCEPT !.gateway = {x \in @ : x.id # c.id} \cup {c}]

(* lines 484-497, 548-563: the client is initialized if there is none, and  *)
(* the request goes to the store                                            *)
send(g, c) ==
    [put(g, [c EXCEPT !.pc = "sent", !.attempts = @ + 1]) EXCEPT
        !.sheetsClient = TRUE,
        !.requests = <<[call |-> c.id, op |-> c.op, at |-> g.now,
                        limitedAt |-> g.lastRateLimitError]>>]

(* lines 478-479, 541-542: what is left of the cooldown at time t *)
(* variant: no cooldown *)
waitTime_none(t, limitedAt) == 0

waitTime(t, limitedAt) == RATE_LIMIT_COOLDOWN - (t - limitedAt)

(* lines 477-482, 540-546: the wait is computed once, on entry *)
enter(g, c) ==
    IF waitTime(g.now, g.lastRateLimitError) > 0
    THEN put(g, [c EXCEPT !.pc = "cooldown",
                          !.wake = g.now + waitTime(g.now, g.lastRateLimitError)])
    ELSE send(g, c)

(* lines 506, 522, 571: retryCount < MAX_RETRIES *)
(* variant: a retry whatever the count *)
mayRetry_always(retryCount) == TRUE

mayRetry(retryCount) == retryCount < MAX_RETRIES

retryAfter(g, c, delay, answer) ==
    IF mayRetry(c.retryCount)
    THEN put(g, [c EXCEPT !.pc = "backoff", !.wake = g.now + delay, !.answer = answer])
    ELSE put(g, [c EXCEPT !.pc = "thrown", !.answer = answer])

(* lines 500-530 (appendRow) and 565-580 (updateRow): the catch blocks *)
respond(g, c, answer) ==
    IF answer = "ok" THEN put(g, [c EXCEPT !.pc = "returned", !.answer = answer])
    ELSE IF answer = "429"
    THEN retryAfter([g EXCEPT !.lastRateLimitError = g.now],
                    [c EXCEPT !.limits = @ + 1],
                    RETRY_DELAY * 2 ^ c.retryCount, answer)
    ELSE IF answer = "401" /\ c.op = "append"
    THEN retryAfter([g EXCEPT !.sheetsClient = FALSE], c, RETRY_DELAY, answer)
    ELSE put(g, [c EXCEPT !.pc = "thrown", !.answer = answer])

(* the timer of a sleeping call fires: the request is sent after the        *)
(* cooldown wait (line 484), the function is called again after the delay   *)
(* before a retry (lines 511, 525, 575)                                     *)
wake(g, c) ==
    IF c.pc = "cooldown" THEN send(g, c)
    ELSE enter(g, [c EXCEPT !.retryCount = @ + 1])

Asleep == {c \in gateway : c.pc \in {"cooldown", "backoff"}}

ApplyGateway(g) ==
    /\ lastRateLimitError' = g.lastRateLimitError
    /\ sheetsClient' = g.sheetsClient
    /\ gateway' = g.gateway
    /\ requests' = g.requests

appVars == <<recentRaids, durations, loots, sheet, timers, detached, nextId, calls,
             last, seen, first, script, queueVars>>

-----------------------------------------------------------------------------------------------------------------------------------------------------
(* SpecRetry: appendRow and updateRow called as index.js calls them, one    *)
(* call after the other (the queue awaits each handler, and with it the     *)
(* handler's store call; the deferred update finds its record without a row *)
(* and makes no call).  The store answers each request with success, a      *)
(* rate-limit error (429), an authentication error (401) or another error   *)
(* (500).                                                                   *)

RetryMaxCalls == 2
RetryMaxSeconds == 360

RetryPauses == {RATE_LIMIT_COOLDOWN \div 2, RATE_LIMIT_COOLDOWN}
Operations == {"append", "update"}
Answers == {"ok", "429", "401", "500"}

(* Date.now() is far from 0: no cooldown is pending at the start *)
InitGateway ==
    /\ QueueInit
    /\ GatewayInit
    /\ now = RATE_LIMIT_COOLDOWN
    /\ recentRaids = <<>>
    /\ durations = <<>>
    /\ loots = <<>>
    /\ sheet = <<HeaderRow>>
    /\ timers = {}
    /\ detached = {}
    /\ nextId = 1
    /\ calls = {}
    /\ last = Did("init", "", 0, FALSE, NoData)
    /\ seen = <<>>
    /\ first = [type |-> "none", totalPoints |-> 0, timestamp |-> 0, inScope |-> TRUE,
                reported |-> 0]
    /\ script = NoData

(* the timer of a sleeping call fires *)
Wakes == \E c \in Asleep : c.wake <= now /\ ApplyGateway(wake(GCur, c))

(* the store answers a request *)
Responds ==
    \E c \in gateway, answer \in Answers :
        c.pc = "sent" /\ ApplyGateway(respond(GCur, c, answer))

(* time passes up to the next timer *)
TimePasses(maxSeconds) ==
    \E c \in Asleep :
        /\ c.wake > now
        /\ c.wake <= maxSeconds * 1000
        /\ \A o \in Asleep : c.wake <= o.wake
        /\ now' = c.wake

Finished == \A c \in gateway : c.pc \in {"returned", "thrown"}

RetryCall ==
    /\ Finished
    /\ \E id \in 1..RetryMaxCalls, op \in Operations :
          /\ \A c \in gateway : id = c.id + 1
          /\ gateway = {} => id = 1
          /\ ApplyGateway(enter([GCur EXCEPT !.gateway = {}], newCall(id, op)))
    /\ UNCHANGED <<now, appVars>>

RetryWake == Wakes /\ UNCHANGED <<now, appVars>>

RetryRespond == Responds /\ UNCHANGED <<now, appVars>>

RetryTick == TimePasses(RetryMaxSeconds) /\ UNCHANGED <<gatewayVars, appVars>>

(* no call in progress: time passes until the next event *)
RetryIdle ==
    /\ gateway # {}
    /\ Finished
    /\ \E d \in RetryPauses :
          now + d <= RetryMaxSeconds * 1000 /\ now' = now + d
    /\ UNCHANGED <<gatewayVars, appVars>>

NextRetry == RetryCall \/ RetryWake \/ RetryRespond \/ RetryTick \/ RetryIdle

SpecRetry == InitGateway /\ [][NextRetry]_vars

(* C17, as the code has it: a single append or update sends at most         *)
(* MAX_RETRIES + 1 = 4 requests to the store (the first and three retries); *)
(* after the fourth it has returned or thrown, and when it throws on a      *)
(* rate-limit answer it has made all four.                                  *)
C17_FourAttempts ==
    \A c \in gateway :
        /\ c.attempts <= MAX_RETRIES + 1
        /\ c.attempts = MAX_RETRIES + 1 => c.pc \in {"sent", "returned", "thrown"}
        /\ c.pc = "thrown" /\ c.answer = "429" => c.attempts = MAX_RETRIES + 1

(* C17 as stated: a single append or update makes at most 3 attempts. *)
C17_AsStated == \A c \in gateway : c.attempts <= 3

(* the store answered every request of a call with a rate-limit error, and  *)
(* the call has thrown                                                      *)
C17_Witness ==
    \E c \in gateway :
        /\ c.pc = "thrown"
        /\ c.answer = "429"
        /\ c.limits = c.attempts
        /\ c.attempts = MAX_RETRIES + 1

(* the call c as it is after the step *)
After(c) == CHOOSE x \in gateway' : x.id = c.id

(* C18: on an authentication error (401) both append and update discard     *)
(* the cached client handle and, unless three retries were made, go on to   *)
(* retry the write.                                                         *)
C18_AuthRetried ==
    [][\A c \in gateway :
          c.pc = "sent" /\ After(c).pc # "sent" /\ After(c).answer = "401"
              => /\ ~sheetsClient'
                 /\ c.retryCount < 3 => After(c).pc = "backoff"]_vars

(* C19: a request of appendRow or updateRow reaches the store no earlier    *)
(* than 60 s after the latest rate-limit answer received before it,         *)
(* whichever call sends it: the call that received the answer, retrying, or *)
(* a later call.                                                            *)
C19_CooldownObserved ==
    \A i \in 1..Len(requests) :
        requests[i].at >= requests[i].limitedAt + 60 * 1000

(* the first call received a rate-limit answer; the second call, entered    *)
(* during the cooldown, slept and sent its request when the 60 s were over  *)
C19_Witness ==
    \E c \in gateway :
        /\ c.id = 2
        /\ c.limits = 0
        /\ c.attempts = 1
        /\ c.wake = requests[1].at
        /\ requests[1].call = 2
        /\ requests[1].at = requests[1].limitedAt + 60 * 1000

-----------------------------------------------------------------------------
(* SpecStore: two occurrences with totals far apart, the first reported by  *)
(* two players and the second by one, with a duration event and a loot      *)
(* event, before or after the points events; the store accepts or refuses   *)
(* each call, and the delayed updates run.                                  *)

StoreMaxSeconds == 2
StoreMaxRaids == 2
StoreMaxOrphans == 1

StoreSteps == {DELAYED_UPDATE_DELAY}
StoreTotals == {291233, 150000}
StorePlayers == {<<[name |-> "Hyperr", points |-> 94987]>>,
                 <<[name |-> "rg44", points |-> 94394]>>}
StoreScales == {"11-15"}

StorePoints ==
    /\ \E tp \in StoreTotals, pl \in StorePlayers, res \in Results :
          /\ tp = 291233 \/ pl[1].name = "Hyperr"
          /\ Handle(PointsData(now, tp, pl), res, StoreMaxRaids, StoreMaxOrphans)
    /\ UNCHANGED <<seen, first, script, queueVars, gatewayVars>>

StoreDuration ==
    /\ \E rt \in RaidTimes, sc \in StoreScales, res \in Results :
          Handle(DurationData(now, rt, sc), res, StoreMaxRaids, StoreMaxOrphans)
    /\ UNCHANGED <<seen, first, script, queueVars, gatewayVars>>

StoreLoot ==
    /\ \E pn \in LootPlayers, it \in Items, res \in Results :
          Handle(LootData(now, pn, it), res, StoreMaxRaids, StoreMaxOrphans)
    /\ UNCHANGED <<seen, first, script, queueVars, gatewayVars>>

StoreTimer ==
    /\ RunTimer(Results)
    /\ UNCHANGED <<seen, first, script, queueVars, gatewayVars>>

StoreTick ==
    /\ Pass(StoreSteps, StoreMaxSeconds)
    /\ UNCHANGED <<seen, first, script, queueVars, gatewayVars>>

NextStore == StorePoints \/ StoreDuration \/ StoreLoot \/ StoreTimer \/ StoreTick

SpecStore == Init /\ [][NextStore]_vars

(* the rows of the store that hold the record rid *)
RowsOf(rid) == {k \in 2..Len(sheet) : sheet[k].rid = rid}

(* C21: each record causes at most one successful append over its whole     *)
(* life: whatever points, duration and loot events are processed, no record *)
(* occupies two rows of the store.                                          *)
C21_OneRowPerRecord ==
    \A rid \in 1..(nextId - 1) : Cardinality(RowsOf(rid)) <= 1

(* a record appended at its creation and then updated by a points, a        *)
(* duration and a loot event holds one row, and the row shows all of it     *)
C21_Witness ==
    \E i \in 1..Len(recentRaids) :
        LET raid == recentRaids[i]
        IN  /\ raid.addedToSheet
            /\ Len(raid.players) = 2
            /\ Truthy(raid.completionTime)
            /\ Truthy(raid.uniqueDrop)
            /\ RowsOf(raid.id) = {raid.sheetRow}
            /\ sheet[raid.sheetRow].cells = raidToRow(raid)
            /\ Len(sheet) = 3

-----------------------------------------------------------------------------
(* SpecTeam: one occurrence whose duration event, of unknown team size, of  *)
(* a team below 10 or of a team of exactly 10, is processed before or after *)
(* its points events; the store accepts or refuses each call.               *)

TeamMaxSeconds == 4
TeamMaxRaids == 1
TeamMaxOrphans == 1

TeamSteps == {DELAYED_UPDATE_DELAY}
TeamScales == {Null, "8-10", "10-14"}

TeamPoints ==
    /\ \E tp \in TotalPoints, pl \in StorePlayers, res \in Results :
          Handle(PointsData(now, tp, pl), res, TeamMaxRaids, TeamMaxOrphans)
    /\ UNCHANGED <<seen, first, script, queueVars, gatewayVars>>

TeamDuration ==
    /\ \E rt \in RaidTimes, sc \in TeamScales, res \in Results :
          Handle(DurationData(now, rt, sc), res, TeamMaxRaids, TeamMaxOrphans)
    /\ UNCHANGED <<seen, first, script, queueVars, gatewayVars>>

TeamTimer ==
    /\ RunTimer(Results)
    /\ UNCHANGED <<seen, first, script, queueVars, gatewayVars>>

TeamTick ==
    /\ Pass(TeamSteps, TeamMaxSeconds)
    /\ UNCHANGED <<seen, first, script, queueVars, gatewayVars>>

NextTeam == TeamPoints \/ TeamDuration \/ TeamTimer \/ TeamTick

SpecTeam == Init /\ [][NextTeam]_vars

(* the team size is unknown, or its leading number is at least 10 *)
UnknownOrTen(scale) ==
    \/ ~Truthy(scale)
    \/ /\ DigitPrefixLen(scale, 1) > 0
       /\ ParseInt(scale, DigitPrefixLen(scale, 1)) >= 10

(* the record a points event has just created *)
Created == recentRaids'[IndexOfId(recentRaids', last'.rid)]

(* C22: a points event that creates a record whose team size is unknown or  *)
(* has a leading number >= 10 issues an append for the record while it is   *)
(* processed; when the append succeeds the record is persisted, and its row *)
(* number is the 1-based index of the row the store appended.               *)
C22_Step ==
    (/\ last'.type = "points" /\ last'.path = "created"
     /\ UnknownOrTen(Created.scale))
    => /\ Call("append", Created) \in calls' \ calls
       /\ ~last'.threw
          => /\ Created.addedToSheet
             /\ Len(sheet') = Len(sheet) + 1
             /\ Created.sheetRow = Len(sheet')
             /\ sheet'[Created.sheetRow] = [rid |-> Created.id, cells |-> raidToRow(Created)]

C22_AppendOnCreation == [][C22_Step]_vars

(* a record created for a team of exactly 10, whose duration event came     *)
(* first, was appended as row 2, the first row below the header             *)
C22_Witness ==
    /\ last.type = "points" /\ last.path = "created" /\ ~last.threw
    /\ Len(last.usedDurations) = 1
    /\ Len(recentRaids) = 1
    /\ recentRaids[1].scale = "10-14"
    /\ recentRaids[1].addedToSheet
    /\ recentRaids[1].sheetRow = 2
    /\ Len(sheet) = 2

-----------------------------------------------------------------------------
(* the record rid was marked persisted before the step *)
WasPersisted(rid) ==
    \E i \in 1..Len(recentRaids) : recentRaids[i].id = rid /\ recentRaids[i].addedToSheet

(* the step issued an append: the store added a row, or refused and the     *)
(* handler threw                                                            *)
AppendIssued == Len(sheet') = Len(sheet) + 1 \/ last'.threw

(* C23: whenever an accepted points event resolves to a record, created by  *)
(* the event or found in the registry, that has its total, passes the       *)
(* team-size gate and is not persisted, an append is issued for the record  *)
(* while the event is processed; a record whose append failed is appended   *)
(* again when the next points event matches it.                             *)
C23_Step ==
    (/\ last'.type = "points"
     /\ last'.path # "stale"
     /\ IndexOfId(recentRaids', last'.rid) # 0
     /\ Created.totalPoints # NullPoints
     /\ UnknownOrTen(Created.scale)
     /\ ~WasPersisted(last'.rid))
    => AppendIssued

C23_AppendWhenUnpersisted == [][C23_Step]_vars

-----------------------------------------------------------------------------
(* the fields of a record other than its row handle *)
Merged(raid) == [raid EXCEPT !.sheetRow = NoRow, !.addedToSheet = FALSE]

(* the registry with the record at index i marked persisted *)
MarkedPersisted(raids, i) == [raids EXCEPT ![i] = appended(@, 2)]

(* C24: when the append of a record fails, the record stays in the registry *)
(* with addedToSheet false and no row number, with the fields it would have *)
(* had the append succeeded (the event's total and player, the orphans      *)
(* merged at its creation); and whether a record is persisted or not makes  *)
(* no difference to its being found by later points, duration and loot      *)
(* events inside their time windows.                                        *)
C24_Step ==
    (/\ last'.type = "points" /\ last'.threw
     /\ last'.path \in {"created", "placeholder"})
    => /\ IndexOfId(recentRaids', last'.rid) # 0
       /\ ~Created.addedToSheet /\ Created.sheetRow = NoRow
       /\ Created.totalPoints = last'.data.totalPoints
       /\ Created.players = last'.data.players
       /\ \A k \in 1..Len(last'.usedDurations) :
             Created.completionTime = last'.usedDurations[k].raidTime
       /\ \A k \in 1..Len(last'.usedLoots) :
             Includes(Created.uniqueDrop,
                      lootMessageOf(last'.usedLoots[k].playerName,
                                    last'.usedLoots[k].itemName))
       /\ LET ok == appendToSheet(Cur, last'.data, "ok").recentRaids
          IN  /\ Len(ok) = Len(recentRaids')
              /\ \A i \in 1..Len(ok) : Merged(ok[i]) = Merged(recentRaids'[i])

C24_MatchTarget ==
    \A i \in 1..Len(recentRaids) :
        LET flagged == MarkedPersisted(recentRaids, i)
        IN  /\ \A tp \in StoreTotals :
                  findRaidByTotalPoints(flagged, tp, now)
                     = findRaidByTotalPoints(recentRaids, tp, now)
            /\ durationTarget(flagged, now) = durationTarget(recentRaids, now)
            /\ \A pn \in LootPlayers \cup {"rg44"} :
                  findRaidForLoot(flagged, [playerName |-> pn], now)
                     = findRaidForLoot(recentRaids, [playerName |-> pn], now)

C24_FailedRecordStays == [][C24_Step]_vars /\ [](C24_MatchTarget)

(* a record whose append was refused has since taken a second player, a     *)
(* loot and a duration event, and is still not in the sheet                 *)
C24_Witness ==
    \E i \in 1..Len(recentRaids) :
        LET raid == recentRaids[i]
        IN  /\ \E c \in calls : c.op = "append" /\ c.rid = raid.id
            /\ ~raid.addedToSheet /\ raid.sheetRow = NoRow
            /\ RowsOf(raid.id) = {}
            /\ Len(raid.players) = 2
            /\ Truthy(raid.completionTime)
            /\ Truthy(raid.uniqueDrop)
            /\ last.type = "duration" /\ last.path = "matched" /\ last.rid = raid.id

-----------------------------------------------------------------------------
(* SpecRow: raidToRow applied to a record with none to five players, with   *)
(* and without a total, a completion time, a loot summary and a scale.      *)

RowTimestamps == {0, 60000}
RowTotals == {NullPoints, 0, 291233}
RowPlayers == <<[name |-> "Hyperr", points |-> 94987],
                [name |-> "rg44", points |-> 94394],
                [name |-> "dot o", points |-> 101852],
                [name |-> "p4", points |-> MIN_POINTS_THRESHOLD],
                [name |-> "p6", points |-> 60000]>>

RowRaids ==
    {[id |-> 1, timestamp |-> ts, totalPoints |-> tp, completionTime |-> ct,
      scale |-> sc, uniqueDrop |-> ud, players |-> Take(RowPlayers, n),
      sheetRow |-> NoRow, addedToSheet |-> FALSE] :
        ts \in RowTimestamps, tp \in RowTotals, ct \in {""} \cup RaidTimes,
        sc \in {""} \cup Scales, ud \in {"", "(Hyperr) - Twisted bow"},
        n \in 0..MAX_PLAYERS}

InitRow ==
    /\ QueueInit
    /\ GatewayInit
    /\ now = Start.now
    /\ recentRaids = Start.recentRaids
    /\ durations = Start.durations
    /\ loots = Start.loots
    /\ sheet = Start.sheet
    /\ timers = Start.timers
    /\ detached = Start.detached
    /\ nextId = Start.nextId
    /\ calls = Start.calls
    /\ last = Start.last
    /\ seen = <<>>
    /\ first = [type |-> "none", totalPoints |-> 0, timestamp |-> 0, inScope |-> TRUE,
                reported |-> 0]
    /\ \E raid \in RowRaids : script = [type |-> "row", raid |-> raid, row |-> <<>>]

RowProject ==
    /\ script.row = <<>>
    /\ script' = [script EXCEPT !.row = raidToRow(script.raid)]
    /\ UNCHANGED <<now, recentRaids, durations, loots, sheet, timers, detached, nextId,
                   calls, last, seen, first, queueVars, gatewayVars>>

NextRow == RowProject

SpecRow == InitRow /\ [][NextRow]_vars

(* lines 551-557: the last column of the range updateRow writes, A being 1 *)
endColumn == 1 + 3 + (MAX_PLAYERS * 2) + 1

(* a cell that holds a text, the empty string when the field is absent *)
TextCell(value) == [str |-> IF value = Null THEN "" ELSE value]

(* C25: the row projected from a record has exactly 15 positions: the       *)
(* timestamp, totalPoints, the completion time, the loot summary, five      *)
(* (name, points) pairs in the order of the record's players, and the       *)
(* scale; an absent optional field and an unused player slot are the empty  *)
(* string.                                                                  *)
C25_RowLayout ==
    script.row # <<>> =>
        LET raid == script.raid
            row == script.row
        IN  /\ Len(row) = 15
            /\ Len(row) = endColumn
            /\ row[1] = formatTimestamp(raid.timestamp)
            /\ row[2] = IF raid.totalPoints = NullPoints THEN TextCell("")
                        ELSE [num |-> raid.totalPoints]
            /\ row[3] = TextCell(raid.completionTime)
            /\ row[4] = TextCell(raid.uniqueDrop)
            /\ \A i \in 1..5 :
                  IF i <= Len(raid.players)
                  THEN /\ row[3 + 2 * i] = TextCell(raid.players[i].name)
                       /\ row[4 + 2 * i] = [num |-> raid.players[i].points]
                  ELSE /\ row[3 + 2 * i] = TextCell("")
                       /\ row[4 + 2 * i] = TextCell("")
            /\ row[15] = TextCell(raid.scale)

-----------------------------------------------------------------------------
(* SpecMatch: up to three records with totals 300 and 800 points apart,     *)
(* created at once or 120 s and 120001 ms apart, and reported by two        *)
(* players; every store call succeeds.                                      *)

MatchMaxSeconds == 241
MatchMaxRaids == 3

MatchSteps == {POINTS_TIME_WINDOW, POINTS_TIME_WINDOW + 1}
MatchTotals == {291233, 291233 + 300, 291233 + 800}
MatchProbes == {291233 - 501, 291233 - 500, 291233, 291233 + 300, 291233 + 500,
                291233 + 501, 291233 + 800, 291233 + 1300, 291233 + 1301}

MatchPoints ==
    /\ \E tp \in MatchTotals, pl \in StorePlayers :
          Handle(PointsData(now, tp, pl), "ok", MatchMaxRaids, 0)
    /\ UNCHANGED <<seen, first, script, queueVars, gatewayVars>>

MatchTick ==
    /\ Pass(MatchSteps, MatchMaxSeconds)
    /\ UNCHANGED <<seen, first, script, queueVars, gatewayVars>>

NextMatch == MatchPoints \/ MatchTick

SpecMatch == Init /\ [][NextMatch]_vars

(* the records within 500 points of p that were created at most 120 s ago *)
Qualifying(p) ==
    {i \in 1..Len(recentRaids) :
        /\ Abs(recentRaids[i].totalPoints - p) <= 500
        /\ now - recentRaids[i].timestamp <= 120 * 1000}

(* C26: for a total p that is not null, findRaidByTotalPoints(p) returns    *)
(* the most recently inserted record whose total is within 500 of p and     *)
(* whose timestamp is at most 120 s before now, and null when there is      *)
(* none; a newer qualifying record is returned although an older one is     *)
(* closer in points.                                                        *)
C26_MostRecentQualifying ==
    \A p \in MatchProbes :
        LET found == findRaidByTotalPoints(recentRaids, p, now)
        IN  IF Qualifying(p) = {} THEN found = 0
            ELSE found \in Qualifying(p) /\ \A j \in Qualifying(p) : j <= found

(* a points event 300 from the total of the older record and 500 from that  *)
(* of the newer one has joined the newer record                             *)
C26_Witness ==
    /\ last.type = "points" /\ last.path = "added"
    /\ Len(recentRaids) = 2
    /\ Qualifying(last.data.totalPoints) = {1, 2}
    /\ Abs(recentRaids[1].totalPoints - last.data.totalPoints) = 300
    /\ Abs(recentRaids[2].totalPoints - last.data.totalPoints) = 500
    /\ last.rid = recentRaids[2].id
    /\ Len(recentRaids[2].players) = 2
    /\ Len(recentRaids[1].players) = 1

-----------------------------------------------------------------------------
(* SpecDuration: two occurrences with totals far apart and duration events  *)
(* with and without a scale, processed at once, 60 s or 60001 ms after a    *)
(* record was created, or before any record exists.                         *)

DurationMaxSeconds == 61
DurationMaxRaids == 2
DurationMaxOrphans == 2

DurationSteps == {TIME_THRESHOLD, TIME_THRESHOLD + 1}
DurationTotals == {291233, 291233 + 800}
DurationTimes == {"45:43.20", "30:00.00"}
DurationScales == {Null, "11-15"}

DurationPoints ==
    /\ \E tp \in DurationTotals, pl \in Players :
          Handle(PointsData(now, tp, pl), "ok", DurationMaxRaids, DurationMaxOrphans)
    /\ UNCHANGED <<seen, first, script, queueVars, gatewayVars>>

DurationEvent ==
    /\ \E rt \in DurationTimes, sc \in DurationScales :
          Handle(DurationData(now, rt, sc), "ok", DurationMaxRaids, DurationMaxOrphans)
    /\ UNCHANGED <<seen, first, script, queueVars, gatewayVars>>

DurationTick ==
    /\ Pass(DurationSteps, DurationMaxSeconds)
    /\ UNCHANGED <<seen, first, script, queueVars, gatewayVars>>

NextDuration == DurationPoints \/ DurationEvent \/ DurationTick

SpecDuration == Init /\ [][NextDuration]_vars

(* the records at most 60 s old that have no completion time *)
Open == {i \in 1..Len(recentRaids) :
            /\ now - recentRaids[i].timestamp <= 60 * 1000
            /\ ~Truthy(recentRaids[i].completionTime)}

(* every orphan but the last of the buffer after the step was in it before *)
OneAdded(before, after) ==
    /\ Len(after) >= 1
    /\ Len(after) <= Len(before) + 1
    /\ \A k \in 1..(Len(after) - 1) : \E j \in 1..Len(before) : before[j] = after[k]

(* C27: a duration event sets the completion time, and the scale when the   *)
(* event carries one, on the most recently inserted record that is at most  *)
(* 60 s old and has no completion time, and changes no other record; when   *)
(* there is no such record the registry is unchanged and exactly one        *)
(* duration orphan, holding the event, is added to the orphan buffer.       *)
C27_Step ==
    last'.type = "duration" =>
        LET data == last'.data
        IN  IF Open # {}
            THEN LET i == lastIndex(Open)
                 IN  /\ recentRaids' =
                           [recentRaids EXCEPT
                               ![i].completionTime = data.raidTime,
                               ![i].scale = IF data.scale # Null THEN data.scale ELSE @]
                     /\ Len(durations') <= Len(durations)
            ELSE /\ recentRaids' = recentRaids
                 /\ OneAdded(durations, durations')
                 /\ LET orphan == durations'[Len(durations')]
                    IN  /\ orphan.timestamp = data.timestamp
                        /\ orphan.raidTime = data.raidTime
                        /\ orphan.scale = data.scale
                 /\ Len(loots') <= Len(loots)

C27_DurationTarget == [][C27_Step]_vars

(* of two records created 60 s ago, the newer took the first duration event *)
(* and the older has now taken the second, which carried no scale           *)
C27_Witness ==
    /\ last.type = "duration" /\ last.path = "matched"
    /\ Len(recentRaids) = 2
    /\ now - recentRaids[1].timestamp = 60 * 1000
    /\ now - recentRaids[2].timestamp = 60 * 1000
    /\ last.rid = recentRaids[1].id
    /\ last.data.scale = Null
    /\ recentRaids[1].completionTime = "30:00.00" /\ recentRaids[1].scale = ""
    /\ recentRaids[2].completionTime = "45:43.20" /\ recentRaids[2].scale = "11-15"

-----------------------------------------------------------------------------
(* SpecLoot: two occurrences with totals far apart, one reported by Hyperr  *)
(* and one by rg44, and loot events for a player of one of them or of       *)
(* neither, processed at once, 60 s or 60001 ms after a record was created, *)
(* or before any record exists.                                             *)

LootMaxSeconds == 61
LootMaxRaids == 2
LootMaxOrphans == 2

LootSteps == {LOOT_TIME_WINDOW, LOOT_TIME_WINDOW + 1}
LootTotals == {291233, 291233 + 800}
LootNames == {"Hyperr", "dot o"}

LootPoints ==
    /\ \E tp \in LootTotals, pl \in StorePlayers :
          /\ tp = 291233 <=> pl[1].name = "Hyperr"
          /\ Handle(PointsData(now, tp, pl), "ok", LootMaxRaids, LootMaxOrphans)
    /\ UNCHANGED <<seen, first, script, queueVars, gatewayVars>>

LootEvent ==
    /\ \E pn \in LootNames, it \in Items :
          Handle(LootData(now, pn, it), "ok", LootMaxRaids, LootMaxOrphans)
    /\ UNCHANGED <<seen, first, script, queueVars, gatewayVars>>

LootTick ==
    /\ Pass(LootSteps, LootMaxSeconds)
    /\ UNCHANGED <<seen, first, script, queueVars, gatewayVars>>

NextLoot == LootPoints \/ LootEvent \/ LootTick

SpecLoot == Init /\ [][NextLoot]_vars

(* the records at most 60 s old, and those of them that list the player *)
Within60 == {i \in 1..Len(recentRaids) : now - recentRaids[i].timestamp <= 60 * 1000}

Listing(name) == {i \in Within60 : HasPlayer(recentRaids[i].players, name)}

(* a record but for its loot summary *)
ButLoot(raid) == [raid EXCEPT !.uniqueDrop = ""]

(* C28: a loot event goes to the most recent record at most 60 s old whose  *)
(* players include the loot's player, even when a more recent record        *)
(* without that player exists; if no record within 60 s has the player, to  *)
(* the most recent record within 60 s; if there is no record within 60 s    *)
(* the event is buffered as a loot orphan and no record changes.            *)
C28_Step ==
    last'.type = "loot" =>
        LET data == last'.data
        IN  IF Within60 = {}
            THEN /\ recentRaids' = recentRaids
                 /\ last'.path = "orphaned"
                 /\ OneAdded(loots, loots')
                 /\ LET orphan == loots'[Len(loots')]
                    IN  /\ orphan.timestamp = data.timestamp
                        /\ orphan.itemName = data.itemName
                        /\ orphan.playerName = data.playerName
            ELSE LET i == IF Listing(data.playerName) # {}
                          THEN lastIndex(Listing(data.playerName))
                          ELSE lastIndex(Within60)
                 IN  /\ last'.rid = recentRaids[i].id
                     /\ Len(recentRaids') = Len(recentRaids)
                     /\ \A j \in 1..Len(recentRaids) :
                           j # i => recentRaids'[j] = recentRaids[j]
                     /\ ButLoot(recentRaids'[i]) = ButLoot(recentRaids[i])
                     /\ Includes(recentRaids'[i].uniqueDrop,
                                 lootMessageOf(data.playerName, data.itemName))
                     /\ Len(loots') <= Len(loots)

-----------------------------------------------------------------------------
(* SpecMerge: duration events buffered as orphans at intervals of 1 s, 2 s  *)
(* and 3001 ms, and then the points event that creates the record, stamped  *)
(* with the time at which it is processed or 1 s earlier.                   *)

MergeMaxSeconds == 5
MergeMaxRaids == 1
MergeMaxOrphans == 2

MergeSteps == {1000, 2000, MERGE_WINDOW + 1}
MergeAges == {0, 1000}
MergeDurations == {[raidTime |-> "45:43.20", scale |-> "11-15"],
                   [raidTime |-> "30:00.00", scale |-> Null]}

MergePoints ==
    /\ \E tp \in TotalPoints, pl \in Players, age \in MergeAges :
          /\ age <= now
          /\ Handle(PointsData(now - age, tp, pl), "ok", MergeMaxRaids, MergeMaxOrphans)
    /\ UNCHANGED <<seen, first, script, queueVars, gatewayVars>>

MergeDuration ==
    /\ \E d \in MergeDurations :
          Handle(DurationData(now, d.raidTime, d.scale), "ok", MergeMaxRaids,
                 MergeMaxOrphans)
    /\ UNCHANGED <<seen, first, script, queueVars, gatewayVars>>

MergeTick ==
    /\ Pass(MergeSteps, MergeMaxSeconds)
    /\ UNCHANGED <<seen, first, script, queueVars, gatewayVars>>

NextMerge == MergePoints \/ MergeDuration \/ MergeTick

SpecMerge == Init /\ [][NextMerge]_vars

(* the step creates a record *)
Creates == last'.type = "points" /\ last'.path = "created"

(* the orphans of a buffer whose timestamp is 0 to 3000 ms before the       *)
(* timestamp of the record created                                          *)
Before(buffer) ==
    {k \in 1..Len(buffer) :
        /\ Created.timestamp - buffer[k].timestamp >= 0
        /\ Created.timestamp - buffer[k].timestamp <= 3000}

(* C29: when a record is created and the duration orphans buffered at that  *)
(* moment include some whose timestamp is 0 to 3000 ms before the record's  *)
(* timestamp, exactly one of them is consumed, one with the smallest        *)
(* difference: its time and its scale are applied to the record, it leaves  *)
(* the buffer, and all other duration orphans stay.  The buffer at that     *)
(* moment is the buffer without the orphans that have timed out.            *)
C29_Step ==
    Creates =>
        LET buffer == cleanOrphans(durations, now)
        IN  IF Before(buffer) = {}
            THEN durations' = buffer /\ Created.completionTime = ""
            ELSE \E k \in Before(buffer) :
                    /\ \A j \in Before(buffer) : buffer[j].timestamp <= buffer[k].timestamp
                    /\ durations' = RemoveAt(buffer, k)
                    /\ Created.completionTime = buffer[k].raidTime
                    /\ Created.scale = IF buffer[k].scale # Null THEN buffer[k].scale ELSE ""
                    /\ last'.usedDurations = <<buffer[k]>>

C29_ClosestDurationOrphan == [][C29_Step]_vars

(* of two duration orphans 3000 and 2000 ms older than the record, the      *)
(* later one was consumed and the earlier one is still buffered             *)
C29_Witness ==
    /\ last.type = "points" /\ last.path = "created"
    /\ Len(last.usedDurations) = 1
    /\ Len(durations) = 1
    /\ recentRaids[1].timestamp - durations[1].timestamp = 3000
    /\ recentRaids[1].timestamp - last.usedDurations[1].timestamp = 2000
    /\ recentRaids[1].completionTime = last.usedDurations[1].raidTime
    /\ recentRaids[1].completionTime # durations[1].raidTime

-----------------------------------------------------------------------------
(* SpecAbsorb: loot events of two players buffered as orphans at intervals  *)
(* of 1 s, 2 s and 3001 ms, and then the points event that creates the      *)
(* record, stamped with the time at which it is processed or 1 s earlier.   *)

AbsorbMaxSeconds == 5
AbsorbMaxRaids == 1
AbsorbMaxOrphans == 2

AbsorbNames == {"Hyperr", "rg44"}

AbsorbPoints ==
    /\ \E tp \in TotalPoints, pl \in Players, age \in MergeAges :
          /\ age <= now
          /\ Handle(PointsData(now - age, tp, pl), "ok", AbsorbMaxRaids, AbsorbMaxOrphans)
    /\ UNCHANGED <<seen, first, script, queueVars, gatewayVars>>

AbsorbLoot ==
    /\ \E pn \in AbsorbNames, it \in Items :
          Handle(LootData(now, pn, it), "ok", AbsorbMaxRaids, AbsorbMaxOrphans)
    /\ UNCHANGED <<seen, first, script, queueVars, gatewayVars>>

AbsorbTick ==
    /\ Pass(MergeSteps, AbsorbMaxSeconds)
    /\ UNCHANGED <<seen, first, script, queueVars, gatewayVars>>

NextAbsorb == AbsorbPoints \/ AbsorbLoot \/ AbsorbTick

SpecAbsorb == Init /\ [][NextAbsorb]_vars

(* the ways to list the orphans idx of a buffer by increasing difference to *)
(* the record's timestamp, that is, latest timestamp first                  *)
ByDifference(buffer, idx) ==
    {s \in [1..Cardinality(idx) -> idx] :
        /\ \A a, b \in 1..Cardinality(idx) : a # b => s[a] # s[b]
        /\ \A a, b \in 1..Cardinality(idx) :
              a < b => buffer[s[a]].timestamp >= buffer[s[b]].timestamp}

(* the loot summary that lists the orphans of a buffer in the order s *)
RECURSIVE Summary(_, _)
Summary(buffer, s) ==
    IF s = <<>> THEN ""
    ELSE LET rest == Summary(buffer, Tail(s))
             entry == lootMessageOf(buffer[Head(s)].playerName, buffer[Head(s)].itemName)
         IN  IF rest = "" THEN entry ELSE entry \o ", " \o rest

(* C30: when a record is created, every loot orphan buffered at that moment *)
(* whose timestamp is 0 to 3000 ms before the record's timestamp is merged  *)
(* into the record, in order of increasing difference, and leaves the       *)
(* buffer; an orphan whose timestamp is after the record's or more than     *)
(* 3000 ms before it is not merged and stays in the buffer.  The buffer at  *)
(* that moment is the buffer without the orphans that have timed out.       *)
C30_Step ==
    Creates =>
        LET buffer == cleanOrphans(loots, now)
        IN  /\ loots' = SelectSeq(buffer, LAMBDA o :
                            ~(/\ Created.timestamp - o.timestamp >= 0
                              /\ Created.timestamp - o.timestamp <= 3000))
            /\ \E s \in ByDifference(buffer, Before(buffer)) :
                  Created.uniqueDrop = Summary(buffer, s)

-----------------------------------------------------------------------------
(* SpecSync: two occurrences with totals far apart, reported by two players *)
(* and one, with duration events of a large team and loot events of both    *)
(* players, before or after the points events.  The store accepts every     *)
(* call, so every raid is in the sheet from its creation on and no delayed  *)
(* update is ever scheduled (line 665 holds whenever a player is pushed).   *)

SyncMaxSeconds == 1
SyncMaxRaids == 2
SyncMaxOrphans == 1

SyncSteps == {1000}
SyncScales == {"11-15"}
SyncNames == {"Hyperr", "rg44"}

SyncPoints ==
    /\ \E tp \in StoreTotals, pl \in StorePlayers :
          /\ tp = 291233 \/ pl[1].name = "Hyperr"
          /\ Handle(PointsData(now, tp, pl), "ok", SyncMaxRaids, SyncMaxOrphans)
    /\ UNCHANGED <<seen, first, script, queueVars, gatewayVars>>

SyncDuration ==
    /\ \E rt \in RaidTimes, sc \in SyncScales :
          Handle(DurationData(now, rt, sc), "ok", SyncMaxRaids, SyncMaxOrphans)
    /\ UNCHANGED <<seen, first, script, queueVars, gatewayVars>>

SyncLoot ==
    /\ \E pn \in SyncNames, it \in Items :
          Handle(LootData(now, pn, it), "ok", SyncMaxRaids, SyncMaxOrphans)
    /\ UNCHANGED <<seen, first, script, queueVars, gatewayVars>>

SyncTick ==
    /\ Pass(SyncSteps, SyncMaxSeconds)
    /\ UNCHANGED <<seen, first, script, queueVars, gatewayVars>>

NextSync == SyncPoints \/ SyncDuration \/ SyncLoot \/ SyncTick

SpecSync == Init /\ [][NextSync]_vars

(* the row the store holds at the row number of the raid is the raid's row *)
InSync(raid) ==
    /\ raid.sheetRow \in 2..Len(sheet)
    /\ sheet[raid.sheetRow] = [rid |-> raid.id, cells |-> raidToRow(raid)]

(* C31: when no store call fails, after every event the row of the store at *)
(* the row number of each raid of recentRaids that was added to the sheet   *)
(* is raidToRow of the raid as it is now: a player pushed, a completion     *)
(* time or scale set and a loot message appended on such a raid have all    *)
(* been written to its row.                                                 *)
C31_RowIsProjection ==
    \A i \in 1..Len(recentRaids) : recentRaids[i].addedToSheet => InSync(recentRaids[i])

(* a raid appended when it was created, then given a second player, a       *)
(* completion time with its scale and the loot of both players              *)
C31_Witness ==
    \E i \in 1..Len(recentRaids) :
        LET raid == recentRaids[i]
        IN  /\ raid.addedToSheet
            /\ InSync(raid)
            /\ Len(raid.players) = 2
            /\ raid.completionTime = "45:43.20"
            /\ raid.scale = "11-15"
            /\ raid.uniqueDrop = "(rg44) - Twisted bow, (Hyperr) - Twisted bow"
            /\ Len(sheet) = 3

-----------------------------------------------------------------------------
(* C32: in every state the raids of recentRaids are in non-decreasing order *)
(* of timestamp from the front to the back, whatever the order in which     *)
(* points events less than 5 minutes old, with timestamps that differ,      *)
(* are processed.                                                           *)
C32_OrderedByTimestamp ==
    \A i \in 1..(Len(recentRaids) - 1) :
        recentRaids[i].timestamp <= recentRaids[i + 1].timestamp

-----------------------------------------------------------------------------
(* SpecEvict: eleven occurrences and more, each opened by one points event  *)
(* whose total is far from every other total; a second player reports one   *)
(* of the first occurrences, whose append may have failed, so a delayed     *)
(* update is pending when further occurrences push the raid out of          *)
(* recentRaids.                                                             *)

EvictMaxSeconds == 2
EvictMaxRaids == 11
EvictFirst == 2

EvictSteps == {DELAYED_UPDATE_DELAY}
EvictSecond == <<[name |-> "rg44", points |-> 94394]>>

EvictPoints ==
    /\ \E res \in Results :
          /\ res = "ok" \/ nextId <= EvictFirst
          /\ Handle(PointsData(now, RegistryTotal(nextId), RegistryPlayers),
                    res, EvictMaxRaids, 0)
    /\ UNCHANGED <<seen, first, script, queueVars, gatewayVars>>

EvictAgain ==
    /\ \E id \in 1..EvictFirst, res \in Results :
          /\ IndexOfId(recentRaids, id) # 0
          /\ Handle(PointsData(now, RegistryTotal(id), EvictSecond),
                    res, EvictMaxRaids, 0)
    /\ UNCHANGED <<seen, first, script, queueVars, gatewayVars>>

EvictTimer ==
    /\ RunTimer(Results)
    /\ UNCHANGED <<seen, first, script, queueVars, gatewayVars>>

EvictTick ==
    /\ Pass(EvictSteps, EvictMaxSeconds)
    /\ UNCHANGED <<seen, first, script, queueVars, gatewayVars>>

NextEvict == EvictPoints \/ EvictAgain \/ EvictTimer \/ EvictTick

SpecEvict == Init /\ [][NextEvict]_vars

(* the step is a delayed update whose raid is no longer in recentRaids *)
TimerOfEvicted ==
    /\ last'.type = "timer"
    /\ IndexOfId(recentRaids, last'.rid) = 0

(* C33: when the raid of a delayed update has been removed from recentRaids *)
(* by the time the callback runs, the callback makes no store call, leaves  *)
(* the sheet as it is, and changes neither recentRaids nor the orphans.     *)
C33_Step ==
    TimerOfEvicted
    => /\ calls' = calls
       /\ sheet' = sheet
       /\ ~last'.threw
       /\ recentRaids' = recentRaids
       /\ durations' = durations
       /\ loots' = loots
       /\ nextId' = nextId

C33_EvictedTargetUntouched == [][C33_Step]_vars

(* the callback for the second player of raid 1 has run after raid 1, never *)
(* stored, was pushed out by the eleventh raid                              *)
C33_Witness ==
    /\ last.type = "timer"
    /\ last.rid = 1
    /\ last.data.player = "rg44"
    /\ IndexOfId(recentRaids, 1) = 0
    /\ Len(recentRaids) = MAX_RAID_HISTORY
    /\ nextId = MAX_RAID_HISTORY + 2
    /\ RowsOf(1) = {}

-----------------------------------------------------------------------------
(* the message id has been queued / its promise has been settled *)
Accepted(id) == arrived >= id

Settled(id) == \E i \in 1..Len(settled) : settled[i].id = id

(* a message arrives while processMessage is suspended in a store call *)
ArrivesDuringCall == arrived' = arrived + 1 /\ processing # {}

(* C34: a message that arrives while the message being processed is         *)
(* suspended in a store call (the cooldown wait is part of that call) is    *)
(* put at the end of the queue in the same step, without touching the       *)
(* suspended message; and every message that was queued is eventually       *)
(* processed and its promise resolved or rejected, given that every store   *)
(* call is answered.                                                        *)
C34_Step ==
    ArrivesDuringCall
    => /\ Len(messageQueue') = Len(messageQueue) + 1
       /\ messageQueue'[Len(messageQueue')].id = arrived'
       /\ SubSeq(messageQueue', 1, Len(messageQueue)) = messageQueue
       /\ processing' = processing
       /\ begun' = begun
       /\ settled' = settled

C34_AcceptedAndSettled ==
    /\ [][C34_Step]_vars
    /\ \A id \in 1..QueueMaxMessages : Accepted(id) ~> Settled(id)

(* two messages arrived during the store call of the first, and all three   *)
(* have been settled                                                        *)
C34_Witness ==
    /\ Len(settled) = QueueMaxMessages
    /\ begun[2].waited
    /\ begun[3].waited
    /\ \A id \in 1..QueueMaxMessages : Settled(id)
    /\ messageQueue = <<>>

-----------------------------------------------------------------------------
(* ensureSheetsExist and addHeaders (lines 61-98, 125-218).  script holds   *)
(* the titles of the sheets of the spreadsheet and the runs of              *)
(* ensureSheetsExist, each at the request it awaits; the runs are async     *)
(* functions (module load at 881-888, appendRow at 484-487, the export), so *)
(* they may overlap.  The store accepts or refuses each request, and it     *)
(* refuses to add a sheet whose title is taken.                             *)

RaidsSheet == "Raids"

BootCur == [titles |-> script.titles, runs |-> script.runs, sheet |-> sheet,
            sheetsClient |-> sheetsClient]

at(b, i, pc) == [b EXCEPT !.runs[i] = pc]

(* lines 63-65: the client is initialized if there is none *)
entered(client) == IF client THEN "get" ELSE "client"

(* lines 62-97: an error of any request is logged and thrown again *)
ensureSheetsExist(b, i, res) ==
    LET pc == b.runs[i]
    IN  IF res # "ok" THEN at(b, i, "threw")
        ELSE IF pc = "client" THEN [at(b, i, "get") EXCEPT !.sheetsClient = TRUE]
        ELSE IF pc = "get"
        THEN IF \E k \in 1..Len(b.titles) : b.titles[k] = RaidsSheet
             THEN at(b, i, "returned")
             ELSE at(b, i, "addSheet")
        ELSE IF \E k \in 1..Len(b.titles) : b.titles[k] = RaidsSheet
        THEN at(b, i, "threw")
        ELSE [at(b, i, "append") EXCEPT !.titles = Append(@, RaidsSheet)]

(* lines 139-217: an error of any request is logged, and addHeaders returns *)
addHeaders(b, i, res) ==
    LET pc == b.runs[i]
    IN  IF res # "ok" THEN at(b, i, "returned")
        ELSE IF pc = "append"
        THEN [at(b, i, "getSheetId") EXCEPT !.sheet = Append(@, HeaderRow)]
        ELSE IF pc = "getSheetId" THEN at(b, i, "format")
        ELSE at(b, i, "returned")

Awaiting == {"client", "get", "addSheet", "append", "getSheetId", "format"}

BootMaxRuns == 3

InitBoot ==
    /\ QueueInit
    /\ lastRateLimitError = 0
    /\ sheetsClient = FALSE
    /\ gateway = {}
    /\ requests = <<>>
    /\ now = 0
    /\ recentRaids = <<>>
    /\ durations = <<>>
    /\ loots = <<>>
    /\ sheet = <<>>
    /\ timers = {}
    /\ detached = {}
    /\ nextId = 1
    /\ calls = {}
    /\ last = Did("init", "", 0, FALSE, NoData)
    /\ seen = <<>>
    /\ first = [type |-> "none", totalPoints |-> 0, timestamp |-> 0, inScope |-> TRUE,
                reported |-> 0]
    /\ script = [type |-> "boot", titles |-> <<"Sheet1">>, runs |-> <<>>]

ApplyBoot(b) ==
    /\ script' = [script EXCEPT !.titles = b.titles, !.runs = b.runs]
    /\ sheet' = b.sheet
    /\ sheetsClient' = b.sheetsClient
    /\ UNCHANGED <<now, recentRaids, durations, loots, timers, detached, nextId, calls,
                   last, seen, first, queueVars, lastRateLimitError, gateway, requests>>

(* ensureSheetsExist is called *)
BootCall ==
    /\ Len(script.runs) < BootMaxRuns
    /\ ApplyBoot([BootCur EXCEPT !.runs = Append(@, entered(sheetsClient))])

(* the request a run of ensureSheetsExist awaits is answered *)
BootEnsure ==
    \E i \in 1..Len(script.runs), res \in Results :
        /\ script.runs[i] \in {"client", "get", "addSheet"}
        /\ ApplyBoot(ensureSheetsExist(BootCur, i, res))

(* the request addHeaders awaits is answered *)
BootHeaders ==
    \E i \in 1..Len(script.runs), res \in Results :
        /\ script.runs[i] \in {"append", "getSheetId", "format"}
        /\ ApplyBoot(addHeaders(BootCur, i, res))

NextBoot == BootCall \/ BootEnsure \/ BootHeaders

SpecBoot == InitBoot /\ [][NextBoot]_vars

CountIn(seq, x) == Cardinality({k \in 1..Len(seq) : seq[k] = x})

(* C35: when no run of ensureSheetsExist is awaiting a request and at least *)
(* one run has returned without an error, the spreadsheet has exactly one   *)
(* sheet 'Raids' and that sheet holds exactly one header row, also when the *)
(* request that writes the headers was refused in an earlier run.           *)
C35_BootstrapIdempotent ==
    (/\ \A i \in 1..Len(script.runs) : script.runs[i] \notin Awaiting
     /\ \E i \in 1..Len(script.runs) : script.runs[i] = "returned")
    => /\ CountIn(script.titles, RaidsSheet) = 1
       /\ CountIn(sheet, HeaderRow) = 1

-----------------------------------------------------------------------------
(* C36: in every state every raid of recentRaids has a total (totalPoints   *)
(* is not null): a duration or a loot event never creates a raid, so        *)
(* findRaidByTotalPoints(null) finds nothing and no points event ever takes *)
(* the placeholder branch (lines 690-705).                                  *)
C36_Step ==
    /\ last'.path # "placeholder"
    /\ last'.type \in {"duration", "loot"}
       => /\ nextId' = nextId
          /\ Len(recentRaids') = Len(recentRaids)

C36_NoPlaceholder ==
    /\ [](\A i \in 1..Len(recentRaids) : recentRaids[i].totalPoints # NullPoints)
    /\ [](findRaidByTotalPoints(recentRaids, NullPoints, now) = 0)
    /\ [][C36_Step]_vars

(* a duration and a loot event found no raid and were buffered; the points  *)
(* event after them created the raid and absorbed both                      *)
C36_Witness ==
    /\ last.type = "points" /\ last.path = "created"
    /\ Len(last.usedDurations) = 1
    /\ Len(last.usedLoots) = 1
    /\ Len(recentRaids) = 1
    /\ recentRaids[1].totalPoints = 291233
    /\ nextId = 2

-----------------------------------------------------------------------------
(* C37: with messages processed one at a time by the queue, whenever a      *)
(* delayed update runs its raid is still not in the sheet, so the callback  *)
(* calls no updateRow: the player whose push scheduled it does not reach    *)
(* the store through the callback.                                          *)
C37_Step ==
    last'.type = "timer"
    => /\ ~heldRaid(Cur, last'.rid).addedToSheet
       /\ last'.path = "nothing"
       /\ calls' = calls
       /\ sheet' = sheet

C37_DelayedUpdateNeverWrites == [][C37_Step]_vars

(* the append of the first message was refused; the second message added    *)
(* its player to the raid and scheduled the callback, which has run: the    *)
(* raid holds both players and the store holds no row of it                 *)
C37_Witness ==
    /\ last.type = "timer"
    /\ last.data.player = "rg44"
    /\ Len(settled) >= 2
    /\ settled[1].rejected
    /\ Len(recentRaids) = 1
    /\ Len(recentRaids[1].players) = 2
    /\ ~recentRaids[1].addedToSheet
    /\ RowsOf(recentRaids[1].id) = {}

-----------------------------------------------------------------------------
(* C38: once a raid has a completion time, set by a duration event or taken *)
(* from a duration orphan when the raid was created, no later step changes  *)
(* the completion time or the scale of that raid.                           *)
C38_Step ==
    \A i \in 1..Len(recentRaids) :
        LET raid == recentRaids[i]
            j == IndexOfId(recentRaids', raid.id)
        IN  (Truthy(raid.completionTime) /\ j # 0)
            => /\ recentRaids'[j].completionTime = raid.completionTime
               /\ recentRaids'[j].scale = raid.scale

C38_DurationSetOnce == [][C38_Step]_vars

(* a second duration event, with another time and another scale, found the  *)
(* raid closed and was buffered: the raid keeps what the first one set      *)
C38_Witness ==
    /\ last.type = "duration" /\ last.path = "orphaned"
    /\ last.data.raidTime = "30:00.00"
    /\ last.data.scale = Null
    /\ \E i \in 1..Len(recentRaids) :
          /\ recentRaids[i].completionTime = "45:43.20"
          /\ recentRaids[i].scale = "11-15"
          /\ now - recentRaids[i].timestamp <= TIME_THRESHOLD

-----------------------------------------------------------------------------
(* the orphans of a buffer, and how often each of them is in it *)
Members(buffer) == {buffer[k] : k \in 1..Len(buffer)}

(* after is before without the orphans of used, each taken out once *)
TakenOut(before, used, after) ==
    \A o \in Members(before) \cup Members(after) \cup Members(used) :
        CountIn(after, o) + CountIn(used, o) = CountIn(before, o)

(* C39: an orphan is consumed at most once.  When a points event creates a  *)
(* raid, the orphans merged into it are taken out of their buffer in that   *)
(* step, so that no later raid can take them, and every other orphan of the *)
(* buffer stays; in any other step no orphan is merged.                     *)
C39_Step ==
    /\ Creates
       => /\ TakenOut(cleanOrphans(durations, now), last'.usedDurations, durations')
          /\ TakenOut(cleanOrphans(loots, now), last'.usedLoots, loots')
          /\ Len(last'.usedDurations) <= 1
    /\ ~Creates
       => /\ last'.usedDurations = <<>>
          /\ last'.usedLoots = <<>>

C39_ConsumedOnce == [][C39_Step]_vars

(* a raid was created that took the duration orphan and the one loot orphan *)
(* of its merge window, and the loot orphan outside the window is still     *)
(* buffered                                                                 *)
C39_Witness ==
    /\ last.type = "points" /\ last.path = "created"
    /\ Len(last.usedDurations) = 1
    /\ Len(last.usedLoots) = 1
    /\ Len(loots) = 1
    /\ loots[1] # last.usedLoots[1]
    /\ durations = <<>>

-----------------------------------------------------------------------------
(* the raid objects alive: in recentRaids or held by a pending callback *)
Alive(raids, held) == {raids[i] : i \in 1..Len(raids)} \cup held

(* the raids shifted out of recentRaids in this step *)
Evicted == {recentRaids[i].id : i \in 1..Len(recentRaids)}
              \ {recentRaids'[i].id : i \in 1..Len(recentRaids')}

(* C40: once a raid is marked as added to the sheet with its row number, no *)
(* later event or delayed update clears the mark or changes the row number; *)
(* and a step that shifts a raid out of recentRaids makes no store call for *)
(* it and leaves its row as it is: no row is ever removed or given to       *)
(* another raid.                                                            *)
C40_Step ==
    /\ \A r \in Alive(recentRaids, detached) :
          r.addedToSheet
          => \A q \in Alive(recentRaids', detached') :
                q.id = r.id => (q.addedToSheet /\ q.sheetRow = r.sheetRow)
    /\ \A rid \in Evicted :
          /\ \A c \in calls' \ calls : c.rid # rid
          /\ \A k \in RowsOf(rid) : sheet'[k] = sheet[k]
    /\ Len(sheet') >= Len(sheet)
    /\ \A k \in 1..Len(sheet) : sheet'[k].rid = sheet[k].rid

C40_PersistenceMonotone == [][C40_Step]_vars

(* raid 1 was appended at row 2 and updated with its second player; it has  *)
(* been pushed out by the eleventh raid, and row 2 still shows both players *)
C40_Witness ==
    /\ nextId = MAX_RAID_HISTORY + 2
    /\ IndexOfId(recentRaids, 1) = 0
    /\ RowsOf(1) = {2}
    /\ InStoredRow(1, "Hyperr")
    /\ InStoredRow(1, "rg44")
    /\ Len(sheet) >= MAX_RAID_HISTORY + 1

====
